---- MODULE Spec2Model ----
(***************************************************************************)
(* Verification model of the AI media buying agent.                        *)
(*                                                                         *)
(* Part I   the rule store and rule evaluator of the knowledge base        *)
(*          (src/document_processor/knowledge_base.py), specification      *)
(*          SpecKB.                                                        *)
(* Part II  the decision lifecycle of the AI-integration service           *)
(*          (src/ai_integration/app.py): the automation sweep, the router, *)
(*          execute_decision and the approve / reject endpoints,           *)
(*          specification Spec.                                            *)
(*                                                                         *)
(* Part III MetaAPIClient.api_call of the ads manager's enhanced client    *)
(*          (src/facebook_ads_manager/enhanced_manager.py), SpecAPI.       *)
(* Part IV  the decision views of the Flask web application (src/app.py),  *)
(*          SpecWeb.                                                       *)
(* Part V   the endpoints of the ads manager                               *)
(*          (src/facebook_ads_manager/app.py) with their error wrapper,    *)
(*          SpecAds, and its metrics endpoint, SpecMetrics.                *)
(* Part VI  the AutonomousDecisionEngine                                   *)
(*          (src/facebook_ads_manager/autonomous_engine.py), SpecEngine.   *)
(*                                                                         *)
(* Floating point values are modelled by integers: metric values and       *)
(* thresholds are whole numbers, budgets are counted in cents.             *)
(* Strings the code inspects character by character (action values) are    *)
(* sequences of one-character strings.                                     *)
(***************************************************************************)
EXTENDS Integers, Sequences, FiniteSets, TLC

VARIABLES
    rules,      \* rule_entries with their rule_conditions / rule_actions, in row order
    kbLast,     \* the last request served by the knowledge base and its response
    decisions,  \* ai_decisions rows, the row number is the decision id
    budget,     \* budget of each ad set / campaign as the ads manager serves it
    lastCall,   \* the remote call the last step issued, if it issued one
    task,       \* the handler running on the event loop (approve, sweep) or idle
    ex,         \* the frame of the execute_decision call in progress
    rej,        \* the reject_decision requests in progress on worker threads
    resp,       \* the HTTP response the last step sent, if it sent one
    api,        \* a MetaAPIClient and the api_call it is in
    web,        \* Decision rows of the Flask web application
    webLast,    \* the last request the web application served
    platform,   \* budget and status of each ad set / campaign on the ad platform
    adStatus,   \* status of each ad set / campaign as the ads manager stores it
    perf,       \* performance_metrics rows of the ads manager
    adsLast,    \* the last request the ads manager served and its response
    engine      \* an AutonomousDecisionEngine with the calls it made on its client

kbVars == <<rules, kbLast>>
lcVars == <<decisions, budget, lastCall, task, ex, rej, resp>>
apiVars == <<api>>
webVars == <<web, webLast>>
adsVars == <<platform, adStatus, perf, adsLast>>
engVars == <<engine>>
vars == <<rules, kbLast, decisions, budget, lastCall, task, ex, rej, resp, api, web, webLast,
          platform, adStatus, perf, adsLast, engine>>

\* A client outside any api_call, and a web application that has served nothing.
IdleClient == [pc |-> "idle", max_retries |-> 0, retry_delay |-> 0,
               retry_count |-> 0, log |-> <<>>]
NoWebRequest == [op |-> "none", user |-> "", id |-> 0, code |-> 0, location |-> ""]

\* An ads manager that has served nothing, and an engine as __init__ leaves it.
NoAdsRequest == [op |-> "none", id |-> "", own |-> 0, code |-> 0, attempts |-> 0]
NewEngine == [decision_history |-> <<>>, calls |-> <<>>,
              last |-> [op |-> "none", campaign_id |-> "", approval_required |-> FALSE,
                        recommendations |-> <<>>],
              result |-> [status |-> "none", campaign_id |-> "", recommendations |-> <<>>,
                          execution_results |-> <<>>]]

(***************************************************************************)
(* Bounds of the model.                                                    *)
(***************************************************************************)
MaxRules == 2      \* rules held by the rule store at one time
MaxConds == 2      \* conditions in one rule payload
MaxDecisions == 2        \* rows of ai_decisions
MaxRejectThreads == 1    \* reject_decision requests in progress at one time
MaxOrderRules == 3       \* rules in the store when the order of the output is checked
MaxRetriesConfig == 3    \* largest max_retries a MetaAPIClient is configured with
MaxWebDecisions == 2     \* rows of the web application's decision table

(***************************************************************************)
(* Part I: knowledge base, rule store and evaluator.                       *)
(***************************************************************************)
MetricNames == {"CPA", "CTR"}
MetricVals  == {9, 10, 11}

\* A metrics snapshot: Dict[str, float], any subset of the metric names present.
MetricsSet ==
    {m \in UNION {[S -> MetricVals] : S \in SUBSET MetricNames} :
        "CTR" \in DOMAIN m => m["CTR"] = 9}

\* The operators the evaluator knows, and one it does not.
KnownOperators == {">", ">=", "<", "<=", "="}
Operators == KnownOperators \cup {"!="}

Condition(t, o, v) == [condition_type |-> t, operator |-> o, value |-> v]
Action(t, v, p) == [action_type |-> t, action_value |-> v, priority |-> p]

CondPool == {Condition("CPA", o, 10) : o \in Operators} \cup {Condition("CTR", "<", 10)}

\* Condition lists of a payload: at most MaxConds conditions, a condition on CPA
\* before one on CTR, at most one condition on each metric.
CondLists ==
    {cs \in UNION {[1..n -> CondPool] : n \in 0..MaxConds} :
        \A i, j \in DOMAIN cs :
            i < j => cs[i].condition_type = "CPA" /\ cs[j].condition_type = "CTR"}

\* Action values, as character sequences.
Plus20   == <<"+", "2", "0", "%">>
Minus25  == <<"-", "2", "5", "%">>
Abs150   == <<"1", "5", "0">>
Paused   == <<"P", "A", "U", "S", "E", "D">>

ActionLists ==
    { <<Action("toggle_adset", Paused, 1), Action("adjust_budget", Minus25, 2)>> }

Priorities == {1, 2}

\* RuleEntryCreate payloads. has_conditions is FALSE for a body that carries no
\* "conditions" field at all (the field has no default in the request model).
RulePayloads ==
    {p \in [knowledge_id : {"none", "unknown"},
            priority : Priorities,
            is_active : BOOLEAN,
            has_conditions : BOOLEAN,
            conditions : CondLists,
            actions : ActionLists] :
        ~p.has_conditions => p.conditions = <<>>}

RuleIds == 1..(MaxRules + 1)

UsedIds == {rules[i].id : i \in DOMAIN rules}
FreshId == CHOOSE i \in 1..(Len(rules) + 1) : i \notin UsedIds

RuleIndex(rule_id) == {i \in DOMAIN rules : rules[i].id = rule_id}

RECURSIVE RemoveAt(_, _)
RemoveAt(s, i) ==
    IF s = <<>> THEN <<>>
    ELSE IF i = 1 THEN Tail(s)
    ELSE <<Head(s)>> \o RemoveAt(Tail(s), i - 1)

Response(op, status) ==
    [op |-> op, status |-> status, rule_id |-> 0,
     metrics |-> <<>>, condition_types |-> {}, triggered_rules |-> <<>>]

InitStore ==
    /\ rules = <<>>
    /\ kbLast = Response("none", 0)

\* A rule row with its condition and action rows, as create_rule stores them.
NewRule(id, p) ==
    [id |-> id, priority |-> p.priority, is_active |-> p.is_active,
     conditions |-> p.conditions, actions |-> p.actions]

\* POST /rules/ : request validation of RuleEntryCreate, then create_rule.
CreateRule(p) ==
    /\ Len(rules) < MaxRules
    /\ IF ~p.has_conditions
       THEN \* a body without the required field is refused by the request model
            /\ kbLast' = Response("create_rule", 422)
            /\ UNCHANGED rules
       ELSE IF p.knowledge_id = "unknown"
       THEN /\ kbLast' = Response("create_rule", 404)
            /\ UNCHANGED rules
       ELSE /\ rules' = Append(rules, NewRule(FreshId, p))
            /\ kbLast' = [Response("create_rule", 200) EXCEPT !.rule_id = FreshId]
    /\ UNCHANGED <<lcVars, apiVars, webVars, adsVars, engVars>>

SetActive(rule, is_active) == [rule EXCEPT !.is_active = is_active]

\* PUT /rules/{rule_id}/toggle
ToggleRule(rule_id, is_active) ==
    /\ IF RuleIndex(rule_id) = {}
       THEN /\ kbLast' = [Response("toggle_rule", 404) EXCEPT !.rule_id = rule_id]
            /\ UNCHANGED rules
       ELSE LET i == CHOOSE k \in RuleIndex(rule_id) : TRUE IN
            /\ rules' = [rules EXCEPT ![i] = SetActive(rules[i], is_active)]
            /\ kbLast' = [Response("toggle_rule", 200) EXCEPT !.rule_id = rule_id]
    /\ UNCHANGED <<lcVars, apiVars, webVars, adsVars, engVars>>

\* DELETE /rules/{rule_id} : the rule row and, by cascade, its conditions and actions.
DeleteRule(rule_id) ==
    /\ IF RuleIndex(rule_id) = {}
       THEN /\ kbLast' = [Response("delete_rule", 404) EXCEPT !.rule_id = rule_id]
            /\ UNCHANGED rules
       ELSE LET i == CHOOSE k \in RuleIndex(rule_id) : TRUE IN
            /\ rules' = RemoveAt(rules, i)
            /\ kbLast' = [Response("delete_rule", 200) EXCEPT !.rule_id = rule_id]
    /\ UNCHANGED <<lcVars, apiVars, webVars, adsVars, engVars>>

\* A variant of ConditionFails that lets a condition on an absent metric pass.
ConditionFailsAbsentPasses(c, metrics) ==
    /\ c.condition_type \in DOMAIN metrics
    /\ LET metric_value == metrics[c.condition_type] IN
       \/ c.operator = ">"  /\ ~(metric_value > c.value)
       \/ c.operator = ">=" /\ ~(metric_value >= c.value)
       \/ c.operator = "<"  /\ ~(metric_value < c.value)
       \/ c.operator = "<=" /\ ~(metric_value <= c.value)
       \/ c.operator = "="  /\ ~(metric_value = c.value)

\* The test of one condition in the evaluator's loop: TRUE when the condition
\* makes conditions_met False.
ConditionFails(c, metrics) ==
    \/ c.condition_type \notin DOMAIN metrics
    \/ LET metric_value == metrics[c.condition_type] IN
       \/ c.operator = ">"  /\ ~(metric_value > c.value)
       \/ c.operator = ">=" /\ ~(metric_value >= c.value)
       \/ c.operator = "<"  /\ ~(metric_value < c.value)
       \/ c.operator = "<=" /\ ~(metric_value <= c.value)
       \/ c.operator = "="  /\ ~(metric_value = c.value)

\* conditions_met after the loop over rule.conditions.
ConditionsMet(rule, metrics) ==
    \A i \in DOMAIN rule.conditions : ~ConditionFails(rule.conditions[i], metrics)

\* The rows the query of evaluate_rules selects: active rules, narrowed by the
\* join on condition types when the optional filter is given and not empty.
CandidateRule(rule, condition_types) ==
    /\ rule.is_active = TRUE
    /\ condition_types # {} =>
          \E i \in DOMAIN rule.conditions :
              rule.conditions[i].condition_type \in condition_types

MaxPriority(s) == CHOOSE m \in {s[i].priority : i \in DOMAIN s} :
                      \A i \in DOMAIN s : s[i].priority <= m

HasPriority(x, p) == x.priority = p

\* sorted(..., key=priority, reverse=True) and list.sort(key=priority, reverse=True):
\* a stable sort, elements of equal priority keep their order.
RECURSIVE SortByPriorityDesc(_)
SortByPriorityDesc(s) ==
    IF s = <<>> THEN <<>>
    ELSE LET m == MaxPriority(s) IN
         SelectSeq(s, LAMBDA x : HasPriority(x, m))
             \o SortByPriorityDesc(SelectSeq(s, LAMBDA x : ~HasPriority(x, m)))

TriggeredRule(rule) ==
    [rule_id |-> rule.id, priority |-> rule.priority,
     actions |-> SortByPriorityDesc(rule.actions)]

RECURSIVE MapTriggered(_)
MapTriggered(s) ==
    IF s = <<>> THEN <<>> ELSE <<TriggeredRule(Head(s))>> \o MapTriggered(Tail(s))

\* A variant of EvaluateRules without the final sort of triggered_rules.
EvaluateRulesUnsorted(rs, metrics, condition_types) ==
    LET candidates == SelectSeq(rs, LAMBDA r : CandidateRule(r, condition_types))
        met == SelectSeq(candidates, LAMBDA r : ConditionsMet(r, metrics))
    IN MapTriggered(met)

\* The triggered_rules list evaluate_rules returns.
EvaluateRules(rs, metrics, condition_types) ==
    LET candidates == SelectSeq(rs, LAMBDA r : CandidateRule(r, condition_types))
        met == SelectSeq(candidates, LAMBDA r : ConditionsMet(r, metrics))
    IN SortByPriorityDesc(MapTriggered(met))

\* POST /rules/evaluate
EvaluateRulesRequest(metrics, condition_types) ==
    /\ kbLast' = [Response("evaluate_rules", 200) EXCEPT
                     !.metrics = metrics,
                     !.condition_types = condition_types,
                     !.triggered_rules = EvaluateRules(rules, metrics, condition_types)]
    /\ UNCHANGED rules
    /\ UNCHANGED <<lcVars, apiVars, webVars, adsVars, engVars>>

(***************************************************************************)
(* Part II: decision lifecycle of the AI-integration service.              *)
(*                                                                         *)
(* approve_decision, run_automation and the sweep it schedules are         *)
(* coroutines of one event loop and call the ads manager with the blocking *)
(* requests library, so they never yield to each other: one of them runs   *)
(* at a time (task). reject_decision is a plain function, which the        *)
(* framework runs on a worker thread, so its two database operations (the  *)
(* read with the status test, the commit of "rejected") interleave with    *)
(* the steps of the handler on the event loop (rej).                       *)
(* A step is one database transaction or one remote call with the commit   *)
(* that follows its response.                                              *)
(***************************************************************************)
NoId == ""      \* a NULL adset_id / campaign_id

AdSets == <<"as1", "as2">>      \* the ad sets of the campaign, as listed
CampaignId == "c1"
Entities == {"as1", "as2", "c1"}

Statuses == {"pending", "pending_approval", "executed", "failed", "rejected"}
KnownLevels == {"autonomous", "hybrid", "approval_required"}
LevelInputs == KnownLevels \cup {"manual"}
Outcomes == {"ok", "bad", "raise"}    \* status 200, another status, an exception

Objective == <<"L", "E", "A", "D", "S">>
DefaultBudget == 50
InitialBudget == 100

\* Currency amounts are counted in cents.
Cents(x) == x * 100

\* str.startswith(ch)
StartsWith(s, ch) == Len(s) > 0 /\ s[1] = ch

\* str.replace("%", "")
RemovePercent(s) == SelectSeq(s, LAMBDA c : c # "%")

DigitChars == <<"0", "1", "2", "3", "4", "5", "6", "7", "8", "9">>
IsDigit(c) == \E i \in DOMAIN DigitChars : DigitChars[i] = c
DigitValue(c) == (CHOOSE i \in DOMAIN DigitChars : DigitChars[i] = c) - 1

RECURSIVE DigitsValue(_)
DigitsValue(s) ==
    IF s = <<>> THEN 0
    ELSE 10 * DigitsValue(SubSeq(s, 1, Len(s) - 1)) + DigitValue(s[Len(s)])

Unsigned(s) == IF StartsWith(s, "+") \/ StartsWith(s, "-") THEN Tail(s) ELSE s

\* float(s) on the whole numbers: an optional sign and digits. IsNumber is FALSE
\* where float raises ValueError.
IsNumber(s) == Unsigned(s) # <<>> /\ \A i \in DOMAIN Unsigned(s) : IsDigit(Unsigned(s)[i])
ToFloat(s) == IF StartsWith(s, "-") THEN 0 - DigitsValue(Unsigned(s))
              ELSE DigitsValue(Unsigned(s))

\* The percentage branch: percentage = float(action_value.replace("%", "")) / 100,
\* then current * (1 + percentage) for "+", current * (1 - percentage) otherwise.
NewBudget(current_budget, action_value) ==
    LET percent == ToFloat(RemovePercent(action_value)) IN
    IF StartsWith(action_value, "+")
    THEN (current_budget * (100 + percent)) \div 100
    ELSE (current_budget * (100 - percent)) \div 100

\* An ai_decisions row as the sweep creates it.
Decision(action, adset_id, campaign_id, status) ==
    [decision_type |-> action.action_type, action_value |-> action.action_value,
     adset_id |-> adset_id, campaign_id |-> campaign_id,
     status |-> status, executed_at |-> FALSE]

\* The branch of the sweep after a decision is stored.
Route(automation_level, action) ==
    IF automation_level = "autonomous" THEN "execute"
    ELSE IF automation_level = "hybrid"
    THEN IF action.action_type = "adjust_budget"
            /\ ~StartsWith(action.action_value, "+")
         THEN "execute"
         ELSE "pending_approval"
    ELSE "pending_approval"

\* A variant of IsPendingApproval that also lets a freshly created decision by.
IsPendingOrPendingApproval(status) == status \in {"pending", "pending_approval"}

\* The test approve_decision and reject_decision make on the row they read.
IsPendingApproval(status) == status = "pending_approval"

IsSigned(action_value) == StartsWith(action_value, "+") \/ StartsWith(action_value, "-")

\* Where execute_decision goes first for a decision: the remote call it issues
\* first, "value_error" when float(action_value) raises before any call, or
\* "no_call" when no branch issues a call.
FirstStep(d) ==
    IF d.decision_type = "adjust_budget"
    THEN IF d.adset_id # NoId
         THEN IF IsSigned(d.action_value) THEN "get_adset"
              ELSE IF IsNumber(d.action_value) THEN "put_adset_budget"
              ELSE "value_error"
         ELSE IF d.campaign_id # NoId
         THEN IF IsSigned(d.action_value) THEN "get_campaign"
              ELSE IF IsNumber(d.action_value) THEN "put_campaign_budget"
              ELSE "value_error"
         ELSE "no_call"
    ELSE IF d.decision_type = "toggle_adset" THEN "put_adset_status"
    ELSE IF d.decision_type = "create_campaign" THEN "get_parent_campaign"
    ELSE "no_call"

\* The entity a call of execute_decision addresses.
Target(d, pc) ==
    IF pc \in {"get_adset", "put_adset_budget", "put_adset_status"} THEN d.adset_id
    ELSE d.campaign_id

\* A variant of StatusAfter that ignores the outcome of the write call.
StatusAfterIgnoringOutcome(outcome) == "executed"

\* The status execute_decision stores after the response of its write call.
StatusAfter(outcome) == IF outcome = "ok" THEN "executed" ELSE "failed"

Idle == [kind |-> "idle", level |-> "", phase |-> "", adsets |-> <<>>,
         adset |-> NoId, actions |-> <<>>, d |-> 0]
NoExec == [d |-> 0, pc |-> "none", by |-> "", current |-> 0, new |-> 0]
NoReject == [pc |-> "idle", d |-> 0]
NoResponse == [handler |-> "none", code |-> 0]

RejectThreads == 1..MaxRejectThreads

NoCall == [d |-> 0, call |-> "none", target |-> NoId, by |-> "", result |-> "",
           budget |-> 0 - 1, read |-> 0 - 1, before |-> 0 - 1, status |-> <<>>]

InitIdle ==
    /\ budget = [e \in Entities |-> Cents(InitialBudget)]
    /\ lastCall = NoCall
    /\ task = Idle
    /\ ex = NoExec
    /\ rej = [t \in RejectThreads |-> NoReject]
    /\ resp = NoResponse

InitClientIdle == api = IdleClient

InitWebEmpty == web = <<>> /\ webLast = NoWebRequest

\* The statuses an ad set may be given (update_ad_set_status of the ads manager).
Active == <<"A", "C", "T", "I", "V", "E">>
Archived == <<"A", "R", "C", "H", "I", "V", "E", "D">>
ValidStatuses == {Active, Paused, Archived}

\* The ads manager's records agree with the platform, nothing has been served.
InitAdsIdle ==
    /\ platform = [e \in Entities |-> [budget |-> Cents(InitialBudget), status |-> Active]]
    /\ adStatus = [e \in Entities |-> Active]
    /\ perf = <<>>
    /\ adsLast = NoAdsRequest

InitEngineNew == engine = NewEngine

\* Whether the ads manager can answer 200 to the call execute_decision is at.
CanSucceed(d, pc) ==
    /\ Target(d, pc) \in Entities
    /\ pc = "put_adset_status" => d.action_value \in ValidStatuses

\* A variant of Call in which the new campaign takes its status from the
\* decision's action value.
CallWithValueAsStatus(pc, outcome) ==
    LET d == decisions[ex.d]
        target == Target(d, pc)
    IN [d |-> ex.d, call |-> pc, target |-> target, by |-> ex.by, result |-> outcome,
        budget |-> IF pc \in {"put_adset_budget", "put_campaign_budget"} THEN ex.new
                   ELSE IF pc = "post_campaign" THEN Cents(DefaultBudget)
                   ELSE 0 - 1,
        read |-> IF pc \in {"put_adset_budget", "put_campaign_budget"}
                    /\ IsSigned(d.action_value) THEN ex.current ELSE 0 - 1,
        before |-> IF target \in Entities THEN budget[target] ELSE 0 - 1,
        status |-> IF pc \in {"put_adset_status", "post_campaign"} THEN d.action_value
                   ELSE <<>>]

\* The record of one remote call of execute_decision.
Call(pc, outcome) ==
    LET d == decisions[ex.d]
        target == Target(d, pc)
    IN [d |-> ex.d, call |-> pc, target |-> target, by |-> ex.by, result |-> outcome,
        budget |-> IF pc \in {"put_adset_budget", "put_campaign_budget"} THEN ex.new
                   ELSE IF pc = "post_campaign" THEN Cents(DefaultBudget)
                   ELSE 0 - 1,
        read |-> IF pc \in {"put_adset_budget", "put_campaign_budget"}
                    /\ IsSigned(d.action_value) THEN ex.current ELSE 0 - 1,
        before |-> IF target \in Entities THEN budget[target] ELSE 0 - 1,
        status |-> IF pc = "put_adset_status" THEN d.action_value
                   ELSE IF pc = "post_campaign" THEN Paused
                   ELSE <<>>]

\* The end of execute_decision: the status is committed and control returns to
\* the caller, the approve endpoint (which answers) or the sweep (which goes on
\* with the next action).
Finish(status) ==
    /\ decisions' = [decisions EXCEPT ![ex.d].status = status,
                                      ![ex.d].executed_at = @ \/ status = "executed"]
    /\ ex' = NoExec
    /\ IF task.kind = "approve"
       THEN /\ task' = Idle
            /\ resp' = [handler |-> "approve", code |-> 200]
       ELSE /\ task' = [task EXCEPT !.phase = "adset", !.actions = Tail(@), !.d = 0]
            /\ resp' = NoResponse

\* execute_decision up to its first remote call.
ExecBegin ==
    /\ ex.pc = "begin"
    /\ LET d == decisions[ex.d]
           step == FirstStep(d)
       IN IF step = "no_call" THEN Finish("executed")
          ELSE IF step = "value_error" THEN Finish("failed")
          ELSE /\ ex' = [ex EXCEPT !.pc = step,
                                   !.new = IF step \in {"put_adset_budget", "put_campaign_budget"}
                                           THEN Cents(ToFloat(d.action_value)) ELSE 0]
               /\ resp' = NoResponse
               /\ UNCHANGED <<decisions, task>>
    /\ lastCall' = NoCall
    /\ UNCHANGED <<kbVars, apiVars, webVars, adsVars, engVars, budget, rej>>

\* A variant of ExecGet that computes from the budget the entity had when the
\* service started instead of the budget it reads.
ExecGetStale(outcome) ==
    /\ ex.pc \in {"get_adset", "get_campaign"}
    /\ LET d == decisions[ex.d]
           target == Target(d, ex.pc)
       IN /\ outcome = "ok" => CanSucceed(d, ex.pc)
          /\ lastCall' = Call(ex.pc, outcome)
          /\ IF outcome # "ok" THEN Finish("failed")
             ELSE IF ~IsNumber(RemovePercent(d.action_value)) THEN Finish("failed")
             ELSE /\ ex' = [ex EXCEPT
                              !.pc = IF ex.pc = "get_adset" THEN "put_adset_budget"
                                     ELSE "put_campaign_budget",
                              !.current = Cents(InitialBudget),
                              !.new = NewBudget(Cents(InitialBudget), d.action_value)]
                  /\ resp' = NoResponse
                  /\ UNCHANGED <<decisions, task>>
    /\ UNCHANGED <<kbVars, apiVars, webVars, adsVars, engVars, budget, rej>>

\* The read of the current budget in the percentage branches, and the
\* computation of the new budget from it.
ExecGet(outcome) ==
    /\ ex.pc \in {"get_adset", "get_campaign"}
    /\ LET d == decisions[ex.d]
           target == Target(d, ex.pc)
       IN /\ outcome = "ok" => CanSucceed(d, ex.pc)
          /\ lastCall' = Call(ex.pc, outcome)
          /\ IF outcome # "ok" THEN Finish("failed")
             ELSE IF ~IsNumber(RemovePercent(d.action_value)) THEN Finish("failed")
             ELSE /\ ex' = [ex EXCEPT
                              !.pc = IF ex.pc = "get_adset" THEN "put_adset_budget"
                                     ELSE "put_campaign_budget",
                              !.current = budget[target],
                              !.new = NewBudget(budget[target], d.action_value)]
                  /\ resp' = NoResponse
                  /\ UNCHANGED <<decisions, task>>
    /\ UNCHANGED <<kbVars, apiVars, webVars, adsVars, engVars, budget, rej>>

\* The read of the parent campaign in the create_campaign branch; has_account
\* tells whether the response body carries an account_id.
ExecGetParent(outcome, has_account) ==
    /\ ex.pc = "get_parent_campaign"
    /\ outcome = "ok" => CanSucceed(decisions[ex.d], ex.pc)
    /\ lastCall' = Call(ex.pc, outcome)
    /\ IF outcome = "ok" /\ has_account
       THEN /\ ex' = [ex EXCEPT !.pc = "post_campaign"]
            /\ resp' = NoResponse
            /\ UNCHANGED <<decisions, task>>
       ELSE Finish("failed")
    /\ UNCHANGED <<kbVars, apiVars, webVars, adsVars, engVars, budget, rej>>

\* The write call of a branch (budget update, status update, campaign creation)
\* and the commit of the final status.
ExecPut(outcome) ==
    /\ ex.pc \in {"put_adset_budget", "put_campaign_budget", "put_adset_status",
                 "post_campaign"}
    /\ LET d == decisions[ex.d]
           target == Target(d, ex.pc)
       IN /\ outcome = "ok" => CanSucceed(d, ex.pc)
          /\ lastCall' = Call(ex.pc, outcome)
          /\ budget' = IF outcome = "ok" /\ ex.pc \in {"put_adset_budget", "put_campaign_budget"}
                       THEN [budget EXCEPT ![target] = ex.new]
                       ELSE budget
          /\ platform' = IF outcome # "ok" THEN platform
                         ELSE IF ex.pc \in {"put_adset_budget", "put_campaign_budget"}
                         THEN [platform EXCEPT ![target].budget = ex.new]
                         ELSE IF ex.pc = "put_adset_status"
                         THEN [platform EXCEPT ![target].status = d.action_value]
                         ELSE platform
          /\ adStatus' = IF outcome = "ok" /\ ex.pc = "put_adset_status"
                         THEN [adStatus EXCEPT ![target] = d.action_value]
                         ELSE adStatus
          /\ Finish(StatusAfter(outcome))
    /\ UNCHANGED <<kbVars, apiVars, webVars, engVars, perf, adsLast, rej>>

\* POST /decisions/{decision_id}/approve up to the call of execute_decision.
ApproveDecision(decision_id) ==
    /\ task.kind = "idle"
    /\ IF decision_id \notin DOMAIN decisions
       THEN /\ resp' = [handler |-> "approve", code |-> 404]
            /\ UNCHANGED <<task, ex>>
       ELSE IF ~IsPendingApproval(decisions[decision_id].status)
       THEN /\ resp' = [handler |-> "approve", code |-> 400]
            /\ UNCHANGED <<task, ex>>
       ELSE /\ task' = [Idle EXCEPT !.kind = "approve", !.d = decision_id]
            /\ ex' = [NoExec EXCEPT !.d = decision_id, !.pc = "begin", !.by = "approve"]
            /\ resp' = NoResponse
    /\ lastCall' = NoCall
    /\ UNCHANGED <<kbVars, apiVars, webVars, adsVars, engVars, decisions, budget, rej>>

\* POST /decisions/{decision_id}/reject: the read of the row and the status test.
RejectDecision(t, decision_id) ==
    /\ rej[t].pc = "idle"
    /\ IF decision_id \notin DOMAIN decisions
       THEN /\ resp' = [handler |-> "reject", code |-> 404]
            /\ UNCHANGED rej
       ELSE IF ~IsPendingApproval(decisions[decision_id].status)
       THEN /\ resp' = [handler |-> "reject", code |-> 400]
            /\ UNCHANGED rej
       ELSE /\ rej' = [rej EXCEPT ![t] = [pc |-> "checked", d |-> decision_id]]
            /\ resp' = NoResponse
    /\ lastCall' = NoCall
    /\ UNCHANGED <<kbVars, apiVars, webVars, adsVars, engVars, decisions, budget, task, ex>>

\* reject_decision: decision.status = "rejected", the commit and the answer.
RejectCommit(t) ==
    /\ rej[t].pc = "checked"
    /\ decisions' = [decisions EXCEPT ![rej[t].d].status = "rejected"]
    /\ resp' = [handler |-> "reject", code |-> 200]
    /\ rej' = [rej EXCEPT ![t] = NoReject]
    /\ lastCall' = NoCall
    /\ UNCHANGED <<kbVars, apiVars, webVars, adsVars, engVars, budget, task, ex>>

\* The actions a rule evaluation may hand to the sweep.
SweepActions ==
    { Action("adjust_budget", Minus25, 1),
      Action("adjust_budget", Plus20, 1),
      Action("adjust_budget", Abs150, 1),
      Action("toggle_adset", Paused, 1),
      Action("create_campaign", Objective, 1) }

\* The actions of the triggered rules in a 200 response of the knowledge
\* service to one evaluation, in the order the sweep walks them (rule by rule,
\* action by action). The service is remote to the sweep: its response is an
\* input of the sweep.
EvalResponses ==
    {<<a>> : a \in SweepActions}
    \cup { <<Action("adjust_budget", Minus25, 2), Action("adjust_budget", Plus20, 1)>>,
           <<Action("toggle_adset", Paused, 1), Action("adjust_budget", Abs150, 1)>>,
           <<Action("toggle_adset", Paused, 1), Action("toggle_adset", Paused, 1)>> }

\* POST /automation/run: the request model accepts any string as automation
\* level; the sweep is scheduled as a background task.
RunAutomation(automation_level) ==
    /\ task.kind = "idle"
    /\ task' = [Idle EXCEPT !.kind = "sweep", !.level = automation_level, !.phase = "start"]
    /\ resp' = [handler |-> "run_automation", code |-> 200]
    /\ lastCall' = NoCall
    /\ UNCHANGED <<kbVars, apiVars, webVars, adsVars, engVars, decisions, budget, ex, rej>>

\* evaluate_and_execute_rules up to the loop over the ad sets: the reads of the
\* account, of its campaigns, of the campaign's metrics and of its ad sets.
SweepStart(outcome) ==
    /\ task.kind = "sweep" /\ task.phase = "start"
    /\ task' = IF outcome = "ok"
               THEN [task EXCEPT !.phase = "adset", !.adsets = AdSets]
               ELSE Idle
    /\ lastCall' = NoCall /\ resp' = NoResponse
    /\ UNCHANGED <<kbVars, apiVars, webVars, adsVars, engVars, decisions, budget, ex, rej>>

\* One turn of the loop over the ad sets: the read of the ad set's metrics and
\* the rule evaluation. "skip" stands for the paths that continue with the next
\* ad set (a status other than 200, no metrics), "raise" for an exception, which
\* the handler around the whole sweep catches.
SweepAdset(outcome, triggered) ==
    /\ task.kind = "sweep" /\ task.phase = "adset"
    /\ task.actions = <<>> /\ task.adsets # <<>>
    /\ outcome = "ok" => Len(decisions) + Len(triggered) <= MaxDecisions
    /\ outcome # "ok" => triggered = <<>>
    /\ task' = IF outcome = "raise" THEN Idle
               ELSE [task EXCEPT !.adset = Head(task.adsets),
                                 !.adsets = Tail(task.adsets),
                                 !.actions = triggered]
    /\ lastCall' = NoCall /\ resp' = NoResponse
    /\ UNCHANGED <<kbVars, apiVars, webVars, adsVars, engVars, decisions, budget, ex, rej>>

\* The end of the sweep.
SweepEnd ==
    /\ task.kind = "sweep" /\ task.phase = "adset"
    /\ task.actions = <<>> /\ task.adsets = <<>>
    /\ task' = Idle
    /\ lastCall' = NoCall /\ resp' = NoResponse
    /\ UNCHANGED <<kbVars, apiVars, webVars, adsVars, engVars, decisions, budget, ex, rej>>

\* A variant of SweepCreate that skips an action for which the ad set already
\* has a decision with the same type and value.
SweepCreateDeduplicating ==
    /\ task.kind = "sweep" /\ task.phase = "adset"
    /\ task.actions # <<>>
    /\ LET new == Decision(Head(task.actions), task.adset, CampaignId, "pending") IN
       IF \E d \in DOMAIN decisions :
              /\ decisions[d].decision_type = new.decision_type
              /\ decisions[d].action_value = new.action_value
              /\ decisions[d].adset_id = new.adset_id
       THEN /\ task' = [task EXCEPT !.actions = Tail(@)]
            /\ UNCHANGED decisions
       ELSE /\ decisions' = Append(decisions, new)
            /\ task' = [task EXCEPT !.phase = "route", !.d = Len(decisions) + 1]
    /\ lastCall' = NoCall /\ resp' = NoResponse
    /\ UNCHANGED <<kbVars, apiVars, webVars, adsVars, engVars, budget, ex, rej>>

\* The decision for the next action is stored with status pending.
SweepCreate ==
    /\ task.kind = "sweep" /\ task.phase = "adset"
    /\ task.actions # <<>>
    /\ decisions' = Append(decisions,
                           Decision(Head(task.actions), task.adset, CampaignId, "pending"))
    /\ task' = [task EXCEPT !.phase = "route", !.d = Len(decisions) + 1]
    /\ lastCall' = NoCall /\ resp' = NoResponse
    /\ UNCHANGED <<kbVars, apiVars, webVars, adsVars, engVars, budget, ex, rej>>

\* A variant of SweepRoute that hands a decision to the operator without
\* changing its status.
SweepRouteLeavingPending ==
    /\ task.kind = "sweep" /\ task.phase = "route"
    /\ IF Route(task.level, Head(task.actions)) = "execute"
       THEN /\ ex' = [NoExec EXCEPT !.d = task.d, !.pc = "begin", !.by = task.level]
            /\ task' = [task EXCEPT !.phase = "exec"]
            /\ UNCHANGED decisions
       ELSE /\ task' = [task EXCEPT !.phase = "adset", !.actions = Tail(@), !.d = 0]
            /\ UNCHANGED <<decisions, ex>>
    /\ lastCall' = NoCall /\ resp' = NoResponse
    /\ UNCHANGED <<kbVars, apiVars, webVars, adsVars, engVars, budget, rej>>

\* The decision is executed or handed to the operator.
SweepRoute ==
    /\ task.kind = "sweep" /\ task.phase = "route"
    /\ IF Route(task.level, Head(task.actions)) = "execute"
       THEN /\ ex' = [NoExec EXCEPT !.d = task.d, !.pc = "begin", !.by = task.level]
            /\ task' = [task EXCEPT !.phase = "exec"]
            /\ UNCHANGED decisions
       ELSE /\ decisions' = [decisions EXCEPT ![task.d].status = "pending_approval"]
            /\ task' = [task EXCEPT !.phase = "adset", !.actions = Tail(@), !.d = 0]
            /\ UNCHANGED ex
    /\ lastCall' = NoCall /\ resp' = NoResponse
    /\ UNCHANGED <<kbVars, apiVars, webVars, adsVars, engVars, budget, rej>>

\* Rows of ai_decisions the service may find when it starts: a row in each
\* status, rows without an ad set or without any target (adset_id and campaign_id
\* are nullable columns, and execute_decision branches on them), rows whose
\* action value or type execute_decision cannot handle.
StoredDecisions ==
    {Decision(Action("adjust_budget", Plus20, 1), "as1", CampaignId, st) : st \in Statuses}
    \cup {Decision(Action("adjust_budget", v, 1), NoId, CampaignId, "pending_approval") :
             v \in {Plus20, Minus25, Abs150}}
    \cup {Decision(a, "as1", CampaignId, "pending_approval") :
             a \in { Action("adjust_budget", Paused, 1),
                     Action("adjust_budget", <<"-", "x", "%">>, 1),
                     Action("pause_campaign", Paused, 1) }}
    \cup { Decision(Action("toggle_adset", Paused, 1), NoId, CampaignId, "pending_approval"),
           Decision(Action("create_campaign", Active, 1), "as1", CampaignId, "pending_approval"),
           Decision(Action("adjust_budget", Plus20, 1), NoId, NoId, "pending_approval") }

Init ==
    /\ InitStore
    /\ InitIdle
    /\ InitClientIdle
    /\ InitWebEmpty
    /\ InitAdsIdle
    /\ InitEngineNew
    /\ decisions \in {<<>>} \cup {<<d>> : d \in StoredDecisions}

Next ==
    \/ \E d \in 1..MaxDecisions : ApproveDecision(d)
    \/ \E t \in RejectThreads, d \in 1..MaxDecisions : RejectDecision(t, d)
    \/ \E t \in RejectThreads : RejectCommit(t)
    \/ \E l \in LevelInputs : RunAutomation(l)
    \/ \E o \in Outcomes : SweepStart(o)
    \/ \E o \in {"ok", "skip", "raise"}, r \in EvalResponses \cup {<<>>} : SweepAdset(o, r)
    \/ SweepEnd
    \/ SweepCreate
    \/ SweepRoute
    \/ ExecBegin
    \/ \E o \in Outcomes : ExecGet(o)
    \/ \E o \in Outcomes, a \in BOOLEAN : ExecGetParent(o, a)
    \/ \E o \in Outcomes : ExecPut(o)

Spec == Init /\ [][Next]_vars

InitKB ==
    /\ InitStore
    /\ InitIdle
    /\ InitClientIdle
    /\ InitWebEmpty
    /\ InitAdsIdle
    /\ InitEngineNew
    /\ decisions = <<>>

TypeFilters == {{}, {"CTR"}}

NextKB ==
    \/ \E p \in RulePayloads : CreateRule(p)
    \/ \E id \in RuleIds, a \in BOOLEAN : ToggleRule(id, a)
    \/ \E id \in RuleIds : DeleteRule(id)
    \/ \E m \in MetricsSet, ct \in TypeFilters : EvaluateRulesRequest(m, ct)

SpecKB == InitKB /\ [][NextKB]_vars

(***************************************************************************)
(* The evaluator on a rule store of up to MaxOrderRules rules: the store   *)
(* is drawn at the start (rows in the order the query reads them) and only *)
(* evaluated afterwards.                                                   *)
(***************************************************************************)
OrderPriorities == {1, 5, 9}

OrderPayloads ==
    [knowledge_id : {"none"},
     priority : OrderPriorities,
     is_active : {TRUE},
     has_conditions : {TRUE},
     conditions : {<<Condition("CPA", ">=", 10)>>, <<Condition("CPA", "<", 11)>>},
     actions : ActionLists]

OrderStores ==
    UNION {{[i \in 1..n |-> NewRule(i, ps[i])] : ps \in [1..n -> OrderPayloads]} :
              n \in 0..MaxOrderRules}

InitOrder ==
    /\ rules \in OrderStores
    /\ kbLast = Response("none", 0)
    /\ InitIdle
    /\ InitClientIdle
    /\ InitWebEmpty
    /\ InitAdsIdle
    /\ InitEngineNew
    /\ decisions = <<>>

NextOrder ==
    \E m \in MetricsSet, ct \in TypeFilters : EvaluateRulesRequest(m, ct)

SpecOrder == InitOrder /\ [][NextOrder]_vars

(***************************************************************************)
(* Part III: MetaAPIClient.api_call of the ads manager's enhanced client.  *)
(*                                                                         *)
(* A step is one attempt: the call of the wrapped function and, when it    *)
(* raises FacebookRequestError, handle_api_error with its sleep or its     *)
(* token refresh. api.log keeps one entry per attempt.                     *)
(***************************************************************************)
RateLimitCodes == {4, 17, 32, 613}
AuthErrorCode == 190
TransientErrorCodes == {1, 2, 4, 17, 341, 368}

\* Error codes the upstream answers with: two rate-limit codes, the code of an
\* invalid token, a transient code that is no rate-limit code, another code.
ErrorCodes == {4, 613, AuthErrorCode, 2, 100}

RetryDelays == {2, 5}

\* The Retry-After header of an error response: absent, a number, not a number.
NoHeader == <<>>
RetryAfterHeaders == {NoHeader, <<"7">>, <<"x">>}

\* int(retry_after) on a header string: IsInt is FALSE where int raises.
IsInt(s) == s # <<>> /\ \A i \in DOMAIN s : IsDigit(s[i])

RECURSIVE Pow2(_)
Pow2(n) == IF n = 0 THEN 1 ELSE 2 * Pow2(n - 1)

\* An error the wrapped call raises, with the outcome the token refresh would have.
ApiError(code, retry_after, refresh_ok) ==
    [code |-> code, retry_after |-> retry_after, refresh_ok |-> refresh_ok]

\* The time handle_api_error sleeps on a rate-limit error.
RateLimitWait(error) ==
    IF error.retry_after = NoHeader THEN api.retry_delay
    ELSE IF IsInt(error.retry_after) THEN DigitsValue(error.retry_after)
    ELSE api.retry_delay

\* A variant of HandleApiError without the test of retry_count against max_retries.
HandleApiErrorUnbounded(error, retry_count) ==
    IF error.code \in RateLimitCodes
    THEN [retry |-> TRUE, wait |-> RateLimitWait(error), refresh |-> "none"]
    ELSE IF error.code = AuthErrorCode
    THEN IF error.refresh_ok
         THEN [retry |-> TRUE, wait |-> 0, refresh |-> "ok"]
         ELSE [retry |-> FALSE, wait |-> 0, refresh |-> "failed"]
    ELSE IF error.code \in TransientErrorCodes
    THEN [retry |-> TRUE, wait |-> api.retry_delay * Pow2(retry_count), refresh |-> "none"]
    ELSE [retry |-> FALSE, wait |-> 0, refresh |-> "none"]

\* handle_api_error: whether to retry, the time slept, what the refresh did.
HandleApiError(error, retry_count) ==
    IF retry_count >= api.max_retries
    THEN [retry |-> FALSE, wait |-> 0, refresh |-> "none"]
    ELSE IF error.code \in RateLimitCodes
    THEN [retry |-> TRUE, wait |-> RateLimitWait(error), refresh |-> "none"]
    ELSE IF error.code = AuthErrorCode
    THEN IF error.refresh_ok
         THEN [retry |-> TRUE, wait |-> 0, refresh |-> "ok"]
         ELSE [retry |-> FALSE, wait |-> 0, refresh |-> "failed"]
    ELSE IF error.code \in TransientErrorCodes
    THEN [retry |-> TRUE, wait |-> api.retry_delay * Pow2(retry_count), refresh |-> "none"]
    ELSE [retry |-> FALSE, wait |-> 0, refresh |-> "none"]

\* The log entry of an attempt; the header is kept for rate-limit errors only.
Attempt(outcome, error, handled) ==
    [outcome |-> outcome,
     code |-> IF outcome = "facebook_error" THEN error.code ELSE 0,
     n |-> api.retry_count,
     retry_after |-> IF outcome = "facebook_error" /\ error.code \in RateLimitCodes
                     THEN error.retry_after ELSE NoHeader,
     retry |-> handled.retry, wait |-> handled.wait, refresh |-> handled.refresh]

NotHandled == [retry |-> FALSE, wait |-> 0, refresh |-> "none"]

\* api_call is entered: retry_count = 0.
ApiCall ==
    /\ api.pc = "idle"
    /\ api' = [api EXCEPT !.pc = "calling", !.retry_count = 0, !.log = <<>>]
    /\ UNCHANGED <<kbVars, lcVars, webVars, adsVars, engVars>>

\* One turn of the loop of api_call. outcome: the wrapped call returns ("ok"),
\* raises FacebookRequestError ("facebook_error") or raises something else
\* ("exception").
ApiAttempt(outcome, error) ==
    /\ api.pc = "calling"
    /\ LET handled == IF outcome = "facebook_error"
                      THEN HandleApiError(error, api.retry_count)
                      ELSE NotHandled
       IN api' = [api EXCEPT
                    !.log = Append(@, Attempt(outcome, error, handled)),
                    !.retry_count = IF handled.retry THEN @ + 1 ELSE @,
                    !.pc = IF outcome = "ok" THEN "returned"
                           ELSE IF handled.retry THEN "calling"
                           ELSE "raised"]
    /\ UNCHANGED <<kbVars, lcVars, webVars, adsVars, engVars>>

ClientConfigs ==
    {[IdleClient EXCEPT !.max_retries = m, !.retry_delay = r] :
        m \in 0..MaxRetriesConfig, r \in RetryDelays}

InitAPI ==
    /\ InitStore
    /\ InitIdle
    /\ InitWebEmpty
    /\ InitAdsIdle
    /\ InitEngineNew
    /\ decisions = <<>>
    /\ api \in ClientConfigs

NextAPI ==
    \/ ApiCall
    \/ \E o \in {"ok", "facebook_error", "exception"}, c \in ErrorCodes,
          h \in RetryAfterHeaders, r \in BOOLEAN : ApiAttempt(o, ApiError(c, h, r))

SpecAPI == InitAPI /\ [][NextAPI]_vars

\* The wrapped call and the sleeps of handle_api_error return: an api_call that
\* is in its loop takes its next turn.
SpecAPILive == InitAPI /\ [][NextAPI]_vars /\ WF_vars(NextAPI)

(***************************************************************************)
(* Part IV: the decision views of the Flask web application.               *)
(*                                                                         *)
(* web is the decision table: row i has id i, a status and the id of the   *)
(* ad account it belongs to. Each view is one database transaction.        *)
(***************************************************************************)
\* The values the model documents for Decision.status.
WebStatuses == {"pending", "approved", "rejected", "executed"}

WebUsers == {"u1", "u2"}
Anonymous == ""      \* a request without a logged-in user

\* AdAccount.user_id of the ad accounts 1 and 2.
AdAccountOwners == <<"u1", "u2">>

WebDecisionRows == [status : WebStatuses, account_id : DOMAIN AdAccountOwners]

\* Decision.query.join(AdAccount).filter(Decision.id == decision_id,
\* AdAccount.user_id == current_user.id) finds a row.
OwnedDecision(user, decision_id) ==
    /\ decision_id \in DOMAIN web
    /\ AdAccountOwners[web[decision_id].account_id] = user

\* The body the two views share: login_required, the query with first_or_404,
\* the assignment of the status, the commit and the redirect.
SetDecisionStatus(op, user, decision_id, status) ==
    IF user = Anonymous
    THEN /\ webLast' = [op |-> op, user |-> user, id |-> decision_id,
                        code |-> 302, location |-> "login"]
         /\ UNCHANGED web
    ELSE IF ~OwnedDecision(user, decision_id)
    THEN /\ webLast' = [op |-> op, user |-> user, id |-> decision_id,
                        code |-> 404, location |-> ""]
         /\ UNCHANGED web
    ELSE /\ web' = [web EXCEPT ![decision_id].status = status]
         /\ webLast' = [op |-> op, user |-> user, id |-> decision_id,
                        code |-> 302, location |-> "decisions"]

\* POST /approve_decision/<decision_id>
WebApproveDecision(user, decision_id) ==
    /\ SetDecisionStatus("approve_decision", user, decision_id, "approved")
    /\ UNCHANGED <<kbVars, lcVars, apiVars, adsVars, engVars>>

\* POST /reject_decision/<decision_id>
WebRejectDecision(user, decision_id) ==
    /\ SetDecisionStatus("reject_decision", user, decision_id, "rejected")
    /\ UNCHANGED <<kbVars, lcVars, apiVars, adsVars, engVars>>

InitWeb ==
    /\ InitStore
    /\ InitIdle
    /\ InitClientIdle
    /\ decisions = <<>>
    /\ InitAdsIdle
    /\ InitEngineNew
    /\ web \in UNION {[1..n -> WebDecisionRows] : n \in 0..MaxWebDecisions}
    /\ webLast = NoWebRequest

NextWeb ==
    \/ \E u \in WebUsers \cup {Anonymous}, d \in 1..(MaxWebDecisions + 1) :
          WebApproveDecision(u, d)
    \/ \E u \in WebUsers \cup {Anonymous}, d \in 1..(MaxWebDecisions + 1) :
          WebRejectDecision(u, d)

SpecWeb == InitWeb /\ [][NextWeb]_vars

(***************************************************************************)
(* Part V: the endpoints of the ads manager.                               *)
(*                                                                         *)
(* budget and adStatus are the records the ads manager stores and serves,  *)
(* platform is the entity on the ad platform. An endpoint wrapped by       *)
(* handle_facebook_error is one step: the runs of its body, the sleeps     *)
(* between them and the response.                                          *)
(***************************************************************************)
WrapperMaxRetries == 3

\* What one run of an endpoint body meets at its platform call: success, a
\* FacebookRequestError with a rate-limit code (17, 4), with code 190, with
\* another code, or an exception of another class.
PlatformOutcomes == {"ok", "rate_limit", "token", "fb_error", "exception"}

\* The outcomes of the successive runs of one request: rate-limit errors up to
\* a last outcome.
OutcomeRuns ==
    {<<o>> : o \in PlatformOutcomes \ {"rate_limit"}}
    \cup {<<"rate_limit", o>> : o \in PlatformOutcomes \ {"rate_limit"}}
    \cup {<<"rate_limit", "rate_limit", o>> : o \in PlatformOutcomes}

AdSetIds == {AdSets[i] : i \in DOMAIN AdSets}
CampaignIds == {CampaignId}
UnknownId == "zz"
Deleted == <<"D", "E", "L", "E", "T", "E", "D">>     \* a status outside valid_statuses

\* The response of a wrapped endpoint. own is the status of the HTTPException
\* the body raises itself before its platform call (0: it raises none); outs
\* are the outcomes of the platform call in the successive runs.
RECURSIVE Wrapper(_, _, _)
Wrapper(own, outs, retry_count) ==
    IF own # 0
    THEN [code |-> 500, attempts |-> retry_count + 1]
    ELSE LET o == outs[retry_count + 1] IN
         IF o = "ok" THEN [code |-> 200, attempts |-> retry_count + 1]
         ELSE IF o = "rate_limit"
         THEN IF retry_count + 1 < WrapperMaxRetries
              THEN Wrapper(own, outs, retry_count + 1)
              ELSE [code |-> 429, attempts |-> retry_count + 1]
         ELSE IF o = "token" THEN [code |-> 401, attempts |-> retry_count + 1]
         ELSE IF o = "fb_error" THEN [code |-> 400, attempts |-> retry_count + 1]
         ELSE [code |-> 500, attempts |-> retry_count + 1]

AdsResponse(op, id, own, r) ==
    [op |-> op, id |-> id, own |-> own, code |-> r.code, attempts |-> r.attempts]

\* The errors the bodies raise themselves.
StatusError(status) == IF status \notin ValidStatuses THEN 400 ELSE 0
MissingError(id, ids) == IF id \notin ids THEN 404 ELSE 0
FirstError(a, b) == IF a # 0 THEN a ELSE b

\* A variant of StoreBudget that stores the budget whatever the platform answered.
StoreBudgetAlways(id, ids, b, r) ==
    IF id \in ids THEN [budget EXCEPT ![id] = b] ELSE budget

\* The budget records after an update request: the new value is committed after
\* api_update returned.
StoreBudget(id, ids, b, r) ==
    IF r.code = 200 THEN [budget EXCEPT ![id] = b] ELSE budget

\* The status records after an update request.
StoreStatus(id, status, r) ==
    IF r.code = 200 THEN [adStatus EXCEPT ![id] = status] ELSE adStatus

\* PUT /campaigns/{campaign_id}/status
UpdateCampaignStatus(campaign_id, status, outs) ==
    LET own == FirstError(StatusError(status), MissingError(campaign_id, CampaignIds))
        r == Wrapper(own, outs, 0)
    IN /\ adsLast' = AdsResponse("update_campaign_status", campaign_id, own, r)
       /\ adStatus' = StoreStatus(campaign_id, status, r)
       /\ platform' = IF r.code = 200 THEN [platform EXCEPT ![campaign_id].status = status]
                      ELSE platform
       /\ UNCHANGED <<kbVars, apiVars, webVars, engVars, perf, budget>>
       /\ UNCHANGED <<decisions, lastCall, task, ex, rej, resp>>

\* PUT /campaigns/{campaign_id}/budget with daily_budget
UpdateCampaignBudget(campaign_id, daily_budget, outs) ==
    LET own == MissingError(campaign_id, CampaignIds)
        r == Wrapper(own, outs, 0)
    IN /\ adsLast' = AdsResponse("update_campaign_budget", campaign_id, own, r)
       /\ budget' = StoreBudget(campaign_id, CampaignIds, daily_budget, r)
       /\ platform' = IF r.code = 200
                      THEN [platform EXCEPT ![campaign_id].budget = daily_budget]
                      ELSE platform
       /\ UNCHANGED <<kbVars, apiVars, webVars, engVars, perf, adStatus>>
       /\ UNCHANGED <<decisions, lastCall, task, ex, rej, resp>>

\* PUT /adsets/{adset_id}/status
UpdateAdSetStatus(adset_id, status, outs) ==
    LET own == FirstError(StatusError(status), MissingError(adset_id, AdSetIds))
        r == Wrapper(own, outs, 0)
    IN /\ adsLast' = AdsResponse("update_ad_set_status", adset_id, own, r)
       /\ adStatus' = StoreStatus(adset_id, status, r)
       /\ platform' = IF r.code = 200 THEN [platform EXCEPT ![adset_id].status = status]
                      ELSE platform
       /\ UNCHANGED <<kbVars, apiVars, webVars, engVars, perf, budget>>
       /\ UNCHANGED <<decisions, lastCall, task, ex, rej, resp>>

\* PUT /adsets/{adset_id}/budget
UpdateAdSetBudget(adset_id, b, outs) ==
    LET own == MissingError(adset_id, AdSetIds)
        r == Wrapper(own, outs, 0)
    IN /\ adsLast' = AdsResponse("update_ad_set_budget", adset_id, own, r)
       /\ budget' = StoreBudget(adset_id, AdSetIds, b, r)
       /\ platform' = IF r.code = 200 THEN [platform EXCEPT ![adset_id].budget = b]
                      ELSE platform
       /\ UNCHANGED <<kbVars, apiVars, webVars, engVars, perf, adStatus>>
       /\ UNCHANGED <<decisions, lastCall, task, ex, rej, resp>>

\* GET /accounts/{account_id}/campaigns/ and GET /campaigns/{campaign_id}/adsets/:
\* the records of the listed entities are refreshed from the platform.
Refresh(op, id, ids, outs) ==
    LET r == Wrapper(0, outs, 0) IN
    /\ adsLast' = AdsResponse(op, id, 0, r)
    /\ budget' = IF r.code = 200
                 THEN [e \in Entities |-> IF e \in ids THEN platform[e].budget ELSE budget[e]]
                 ELSE budget
    /\ adStatus' = IF r.code = 200
                   THEN [e \in Entities |-> IF e \in ids THEN platform[e].status
                                            ELSE adStatus[e]]
                   ELSE adStatus

GetCampaigns(outs) ==
    /\ Refresh("get_campaigns", "a1", CampaignIds, outs)
    /\ UNCHANGED <<kbVars, apiVars, webVars, engVars, perf, platform>>
    /\ UNCHANGED <<decisions, lastCall, task, ex, rej, resp>>

GetAdSets(outs) ==
    /\ Refresh("get_ad_sets", CampaignId, AdSetIds, outs)
    /\ UNCHANGED <<kbVars, apiVars, webVars, engVars, perf, platform>>
    /\ UNCHANGED <<decisions, lastCall, task, ex, rej, resp>>

\* The budget of an entity is changed on the platform itself (by the advertiser
\* in the platform's own tools, or by the platform).
PlatformBudgets == {Cents(200)}
PlatformChange(e, b) ==
    /\ platform[e].budget # b
    /\ platform' = [platform EXCEPT ![e].budget = b]
    /\ UNCHANGED <<kbVars, lcVars, apiVars, webVars, engVars, adStatus, perf, adsLast>>

InitAds ==
    /\ InitStore
    /\ InitIdle
    /\ InitClientIdle
    /\ InitWebEmpty
    /\ InitAdsIdle
    /\ InitEngineNew
    /\ decisions = <<>>

NextAds ==
    \/ \E c \in CampaignIds \cup {UnknownId}, st \in {Paused, Deleted}, o \in OutcomeRuns :
          UpdateCampaignStatus(c, st, o)
    \/ \E c \in CampaignIds \cup {UnknownId}, o \in OutcomeRuns :
          UpdateCampaignBudget(c, Cents(150), o)
    \/ \E a \in {"as1", UnknownId}, st \in {Paused, Deleted}, o \in OutcomeRuns :
          UpdateAdSetStatus(a, st, o)
    \/ \E a \in {"as1", UnknownId}, o \in OutcomeRuns : UpdateAdSetBudget(a, Cents(150), o)
    \/ \E o \in OutcomeRuns : GetCampaigns(o)
    \/ \E o \in OutcomeRuns : GetAdSets(o)
    \/ \E e \in {"as1", CampaignId}, b \in PlatformBudgets : PlatformChange(e, b)

SpecAds == InitAds /\ [][NextAds]_vars

\* The ads manager with one percentage decision of the AI-integration service
\* awaiting approval, on an ad set or on the campaign.
InitRemote ==
    /\ InitStore
    /\ InitIdle
    /\ InitClientIdle
    /\ InitWebEmpty
    /\ InitAdsIdle
    /\ InitEngineNew
    /\ decisions \in {<<Decision(Action("adjust_budget", Plus20, 1), a, CampaignId,
                                 "pending_approval")>> : a \in {"as1", NoId}}

NextRemote ==
    \/ \E e \in {"as1", CampaignId}, b \in PlatformBudgets : PlatformChange(e, b)
    \/ \E o \in {<<"ok">>, <<"exception">>} : GetCampaigns(o)
    \/ \E o \in {<<"ok">>, <<"exception">>} : GetAdSets(o)
    \/ ApproveDecision(1)
    \/ ExecBegin
    \/ \E o \in Outcomes : ExecGet(o)
    \/ \E o \in Outcomes : ExecPut(o)

SpecRemote == InitRemote /\ [][NextRemote]_vars

UpdateOps == {"update_campaign_status", "update_campaign_budget",
              "update_ad_set_status", "update_ad_set_budget"}

\* C23: a percentage adjust_budget computes the new budget from the budget the
\* entity has on the platform when the decision is executed: the value the
\* read step hands to the computation is the platform's budget of the target,
\* also after the platform's budget changed since the last refresh.
C23_PercentageUsesPlatformBudget ==
    [][(ex.pc \in {"get_adset", "get_campaign"}
        /\ ex'.pc \in {"put_adset_budget", "put_campaign_budget"})
       => (/\ ex'.current = platform[lastCall'.target].budget
           /\ ex'.new = NewBudget(platform[lastCall'.target].budget,
                                  decisions[ex.d].action_value))]_vars

\* C28: an update request changes the stored budget or status of an entity
\* only when it is answered 200, that is when the platform accepted the
\* update; a request answered with an error (429 after the retries included)
\* leaves every stored record as it was.
C28_StoredChangesOnlyOnRemoteSuccess ==
    [][adsLast'.op \in UpdateOps /\ adsLast' # adsLast
       => IF adsLast'.code = 200
          THEN /\ budget' # budget
                    => budget'[adsLast'.id] = platform'[adsLast'.id].budget
               /\ adStatus' # adStatus
                    => adStatus'[adsLast'.id] = platform'[adsLast'.id].status
               /\ \A e \in Entities \ {adsLast'.id} :
                      budget'[e] = budget[e] /\ adStatus'[e] = adStatus[e]
          ELSE budget' = budget /\ adStatus' = adStatus]_vars

\* A budget update of a stored ad set was answered 429 after three rate-limited
\* runs, and the stored budget and status are the ones the service started with.
C28_Witness ==
    /\ adsLast.op = "update_ad_set_budget"
    /\ adsLast.id \in AdSetIds
    /\ adsLast.code = 429
    /\ adsLast.attempts = WrapperMaxRetries
    /\ budget[adsLast.id] = Cents(InitialBudget)
    /\ adStatus[adsLast.id] = Active

\* C29: an error a wrapped endpoint raises itself (404 for a missing entity,
\* 400 for an invalid status) reaches the caller with its own status code, after
\* one run of the body.
C29_OwnErrorKeepsItsStatusCode ==
    adsLast.own # 0 => adsLast.code = adsLast.own /\ adsLast.attempts = 1

(***************************************************************************)
(* Part V, continued: the metrics endpoint of the ads manager.             *)
(*                                                                         *)
(* perf is the performance_metrics table of one ad set, in insertion       *)
(* order. spend is in cents; a quotient the code computes in floating      *)
(* point is kept as its numerator and denominator.                         *)
(***************************************************************************)
MaxInsights == 2
Dates == 1..2
Spends == {0, 2550}
NoQuotient == [num |-> 0, den |-> 0]

\* The 'actions' lists of the platform's insight rows.
InsightActions ==
    {<<>>,
     <<[action_type |-> "offsite_conversion", value |-> 10]>>,
     <<[action_type |-> "lead", value |-> 5]>>,
     <<[action_type |-> "offsite_conversion", value |-> 10],
       [action_type |-> "lead", value |-> 5]>>,
     <<[action_type |-> "link_click", value |-> 3],
       [action_type |-> "offsite_conversion", value |-> 10]>>}

\* An insight row of the platform; has_actions tells whether it carries the
\* key 'actions'.
InsightRows ==
    {[date |-> d, spend |-> sp, has_actions |-> TRUE, actions |-> a] :
        d \in Dates, sp \in Spends, a \in InsightActions}
    \cup {[date |-> d, spend |-> sp, has_actions |-> FALSE, actions |-> <<>>] :
        d \in Dates, sp \in Spends}

\* The daily breakdown the platform answers with: at most one row per date.
InsightLists ==
    {<<>>} \cup {<<r>> : r \in InsightRows}
    \cup {<<r1, r2>> : r1 \in {r \in InsightRows : r.date = 1},
                       r2 \in {r \in InsightRows : r.date = 2}}

\* The sum of the values of the actions whose type is one of types.
RECURSIVE SumActions(_, _)
SumActions(actions, types) ==
    IF actions = <<>> THEN 0
    ELSE (IF Head(actions).action_type \in types THEN Head(actions).value ELSE 0)
         + SumActions(Tail(actions), types)

\* A variant of ConversionTypes that counts offsite conversions only.
ConversionTypesOffsiteOnly == {"offsite_conversion"}

\* The action types the endpoint counts as conversions.
ConversionTypes == {"offsite_conversion", "lead"}

Quotient(spend, n) == IF n > 0 /\ spend > 0 THEN [num |-> spend, den |-> n] ELSE NoQuotient

\* The row the endpoint stores for one insight row. The field insight is the
\* platform's row it was computed from.
Metric(adset_id, insight) ==
    LET conversions == IF insight.has_actions
                       THEN SumActions(insight.actions, ConversionTypes) ELSE 0
        leads == IF insight.has_actions
                 THEN SumActions(insight.actions, {"lead"}) ELSE 0
    IN [adset_id |-> adset_id, date |-> insight.date, conversions |-> conversions,
        spend |-> insight.spend, cpa |-> Quotient(insight.spend, conversions),
        cpl |-> Quotient(insight.spend, leads), insight |-> insight]

\* The table after the row of (adset_id, date) was updated or, when there is
\* none, added.
Upsert(rows, m) ==
    LET same == {i \in DOMAIN rows : rows[i].adset_id = m.adset_id /\ rows[i].date = m.date}
    IN IF same = {} THEN Append(rows, m)
       ELSE LET first == CHOOSE i \in same : \A k \in same : i <= k
            IN [rows EXCEPT ![first] = m]

RECURSIVE StoreMetrics(_, _, _)
StoreMetrics(rows, adset_id, insights) ==
    IF insights = <<>> THEN rows
    ELSE StoreMetrics(Upsert(rows, Metric(adset_id, Head(insights))), adset_id,
                      Tail(insights))

\* GET /adsets/{adset_id}/metrics; insights is what the platform answers in the
\* run that succeeds.
GetAdSetMetrics(adset_id, insights, outs) ==
    LET own == MissingError(adset_id, AdSetIds)
        r == Wrapper(own, outs, 0)
    IN /\ Len(insights) <= MaxInsights
       /\ adsLast' = AdsResponse("get_ad_set_metrics", adset_id, own, r)
       /\ perf' = IF r.code = 200 THEN StoreMetrics(perf, adset_id, insights) ELSE perf
       /\ UNCHANGED <<kbVars, lcVars, apiVars, webVars, engVars, platform, adStatus>>

InitMetrics ==
    /\ InitStore
    /\ InitIdle
    /\ InitClientIdle
    /\ InitWebEmpty
    /\ InitAdsIdle
    /\ InitEngineNew
    /\ decisions = <<>>

NextMetrics ==
    \E a \in {"as1", UnknownId}, i \in InsightLists,
       o \in {<<"ok">>, <<"rate_limit", "ok">>, <<"token">>} :
        GetAdSetMetrics(a, i, o)

SpecMetrics == InitMetrics /\ [][NextMetrics]_vars

\* C22: every stored metrics row has as conversions the sum of the
\* offsite_conversion actions of its insight row alone (lead actions are not
\* added), and as cpa the spend divided by that number.
C22_ConversionsAreOffsiteOnly ==
    \A i \in DOMAIN perf :
        LET offsite == SumActions(perf[i].insight.actions, {"offsite_conversion"})
        IN /\ perf[i].conversions = offsite
           /\ perf[i].cpa = Quotient(perf[i].spend, offsite)

(***************************************************************************)
(* Claims about the rule store and the evaluator.                          *)
(***************************************************************************)
\* What it means for a condition to hold on a snapshot: the metric is present
\* and the comparison named by the operator is true.
Holds(c, m) ==
    /\ c.condition_type \in DOMAIN m
    /\ IF c.operator = ">" THEN m[c.condition_type] > c.value
       ELSE IF c.operator = ">=" THEN m[c.condition_type] >= c.value
       ELSE IF c.operator = "<" THEN m[c.condition_type] < c.value
       ELSE IF c.operator = "<=" THEN m[c.condition_type] <= c.value
       ELSE IF c.operator = "=" THEN m[c.condition_type] = c.value
       ELSE FALSE

KnownOps(rule) ==
    \A i \in DOMAIN rule.conditions : rule.conditions[i].operator \in KnownOperators

TriggeredIds(out) == {out[i].rule_id : i \in DOMAIN out}

\* C8: evaluate_rules returns exactly the active rules all of whose conditions
\* hold on the given metrics (conditions with one of the operators >, >=, <, <=,
\* =; a condition on an absent metric does not hold), each once; an inactive
\* rule is never returned. With the optional condition_types filter the output
\* is narrowed to the rules that have a condition on one of the listed types.
C8_EvaluateReturnsExactlyMetActiveRules ==
    kbLast.op = "evaluate_rules" =>
        LET out == kbLast.triggered_rules
            m == kbLast.metrics
            ct == kbLast.condition_types
        IN /\ \A i, j \in DOMAIN out : i # j => out[i].rule_id # out[j].rule_id
           /\ TriggeredIds(out) \subseteq UsedIds
           /\ \A k \in DOMAIN rules :
                 /\ ~rules[k].is_active => rules[k].id \notin TriggeredIds(out)
                 /\ KnownOps(rules[k]) =>
                      ( rules[k].id \in TriggeredIds(out)
                        <=> /\ rules[k].is_active
                            /\ \A i \in DOMAIN rules[k].conditions :
                                   Holds(rules[k].conditions[i], m)
                            /\ ct # {} =>
                                   \E i \in DOMAIN rules[k].conditions :
                                       rules[k].conditions[i].condition_type \in ct )

\* Witness of C8: an unfiltered evaluation that returns a rule with two
\* conditions and leaves out an inactive rule whose conditions all hold.
C8_Witness ==
    /\ kbLast.op = "evaluate_rules"
    /\ kbLast.condition_types = {}
    /\ \E k \in DOMAIN rules :
          /\ Len(rules[k].conditions) = 2
          /\ rules[k].id \in TriggeredIds(kbLast.triggered_rules)
    /\ \E k \in DOMAIN rules :
          /\ ~rules[k].is_active
          /\ rules[k].conditions # <<>>
          /\ \A i \in DOMAIN rules[k].conditions :
                Holds(rules[k].conditions[i], kbLast.metrics)
          /\ rules[k].id \notin TriggeredIds(kbLast.triggered_rules)

\* C9: create_rule rejects a payload whose condition list is empty: the call
\* returns an error and stores nothing.
C9_CreateRuleRejectsEmptyConditions ==
    [][\A p \in RulePayloads :
          (p.has_conditions /\ p.conditions = <<>> /\ CreateRule(p))
              => (kbLast'.status # 200 /\ rules' = rules)]_vars

\* C10: a rule with zero conditions never appears in the triggered_rules
\* returned by evaluate_rules.
C10_ZeroConditionRuleNeverTriggered ==
    kbLast.op = "evaluate_rules" =>
        \A k \in DOMAIN rules :
            rules[k].conditions = <<>> =>
                rules[k].id \notin TriggeredIds(kbLast.triggered_rules)

\* The place of a rule in the order the store is read.
StorePosition(rule_id) == CHOOSE k \in DOMAIN rules : rules[k].id = rule_id

PrioritiesOf(s) == [i \in DOMAIN s |-> s[i].priority]

\* C11: the triggered rules are returned by priority descending, and triggered
\* rules of equal priority keep the order in which they were read from the store.
C11_TriggeredRulesByPriorityDescStable ==
    kbLast.op = "evaluate_rules" =>
        LET out == kbLast.triggered_rules IN
        \A i, j \in DOMAIN out :
            i < j =>
                \/ out[i].priority > out[j].priority
                \/ /\ out[i].priority = out[j].priority
                   /\ StorePosition(out[i].rule_id) < StorePosition(out[j].rule_id)

\* Witness of C11: rules stored with priorities 5, 1, 9 are all triggered and
\* returned in the order 9, 5, 1.
C11_Witness ==
    /\ kbLast.op = "evaluate_rules"
    /\ PrioritiesOf(rules) = <<5, 1, 9>>
    /\ PrioritiesOf(kbLast.triggered_rules) = <<9, 5, 1>>

(***************************************************************************)
(* Claims about the decision lifecycle.                                    *)
(***************************************************************************)
Terminal == {"executed", "failed", "rejected"}
BudgetWrites == {"put_adset_budget", "put_campaign_budget"}
WriteCalls == BudgetWrites \cup {"put_adset_status", "post_campaign"}

Refused(handler) == [handler |-> handler, code |-> 400]

\* C1: approve_decision and reject_decision go on only for a decision whose
\* status is pending_approval; for a decision in any other status the request is
\* answered with an error (400), no row changes, no execution starts and no
\* remote call is made.
C1_ApproveRejectOnlyPendingApproval ==
    [][\A d \in DOMAIN decisions :
          /\ decisions[d].status # "pending_approval" =>
                /\ ApproveDecision(d) =>
                      /\ resp' = Refused("approve")
                      /\ decisions' = decisions /\ budget' = budget
                      /\ ex' = ex /\ task' = task /\ lastCall' = NoCall
                /\ \A t \in RejectThreads :
                      RejectDecision(t, d) =>
                          /\ resp' = Refused("reject")
                          /\ decisions' = decisions /\ budget' = budget
                          /\ rej' = rej /\ ex' = ex /\ lastCall' = NoCall
          /\ (task.kind = "idle" /\ task'.kind = "approve" /\ task'.d = d)
                => decisions[d].status = "pending_approval"
          /\ \A t \in RejectThreads :
                (rej[t].pc = "idle" /\ rej'[t].pc = "checked" /\ rej'[t].d = d)
                    => decisions[d].status = "pending_approval"]_vars

\* Witness of C1: an approve request on the only decision, which is executed,
\* has just been refused.
C1_Witness ==
    /\ resp = Refused("approve")
    /\ Len(decisions) = 1
    /\ decisions[1].status = "executed"
    /\ lastCall = NoCall

\* C2: once a decision is executed, failed or rejected its status never
\* changes again.
C2_TerminalStatusNeverChanges ==
    [][\A d \in DOMAIN decisions :
          decisions[d].status \in Terminal
              => decisions'[d].status = decisions[d].status]_vars

\* The routing policy as the claim C3 states it.
ClaimedRoute(automation_level, action) ==
    IF automation_level = "autonomous" THEN "execute"
    ELSE IF /\ automation_level = "hybrid"
            /\ action.action_type = "adjust_budget"
            /\ StartsWith(action.action_value, "-")
    THEN "execute"
    ELSE "pending_approval"

\* C3: the routing step executes a new decision at once under level autonomous,
\* sets it to pending_approval under approval_required, and under hybrid
\* executes it at once if and only if it is an adjust_budget whose action value
\* starts with "-".
C3_RoutingPolicy ==
    [][(/\ task.kind = "sweep" /\ task.phase = "route" /\ task'.phase # "route"
        /\ task.level \in KnownLevels)
          => IF ClaimedRoute(task.level, Head(task.actions)) = "execute"
             THEN /\ task'.phase = "exec" /\ ex'.d = task.d /\ ex'.pc = "begin"
                  /\ decisions'[task.d].status = "pending"
             ELSE /\ decisions'[task.d].status = "pending_approval"
                  /\ ex' = NoExec /\ task'.phase = "adset"]_vars

\* C4: a sweep request whose automation_level is not one of autonomous, hybrid,
\* approval_required is refused: no sweep runs, and no decision is created or
\* routed, under such a level.
C4_UnknownLevelRejected ==
    task.kind = "sweep" => task.level \in KnownLevels

ExecEnds == ex.pc # "none" /\ ex'.pc = "none"

\* C5 as stated: execute_decision leaves the decision executed or failed, failed
\* whenever a remote call made for it does not succeed, and executed whenever
\* every remote call made for it succeeds.
C5_ExecutedWhenEveryCallSucceeds ==
    [][ExecEnds =>
          /\ decisions'[ex.d].status \in {"executed", "failed"}
          /\ (lastCall' # NoCall /\ lastCall'.result # "ok")
                => decisions'[ex.d].status = "failed"
          /\ (lastCall' = NoCall \/ lastCall'.result = "ok")
                => (decisions'[ex.d].status = "executed" /\ decisions'[ex.d].executed_at)]_vars

\* C5 as amended: execute_decision always returns to its caller and leaves the
\* decision executed or failed; failed whenever a remote call made for it does
\* not succeed; executed, with executed_at set, exactly when the write call of
\* its branch succeeded or its branch makes no call at all (failed, then, also
\* when the action value is no number or the parent campaign has no account id).
C5_ExecuteEndsExecutedOrFailed ==
    [][ExecEnds =>
          /\ decisions'[ex.d].status \in {"executed", "failed"}
          /\ task'.kind = task.kind \/ (task.kind = "approve" /\ resp'.code = 200)
          /\ (lastCall' # NoCall /\ lastCall'.result # "ok")
                => decisions'[ex.d].status = "failed"
          /\ decisions'[ex.d].status = "executed" => decisions'[ex.d].executed_at
          /\ decisions'[ex.d].status = "executed"
                <=> \/ lastCall'.call \in WriteCalls /\ lastCall'.result = "ok"
                    \/ lastCall' = NoCall /\ FirstStep(decisions[ex.d]) = "no_call"]_vars

\* Witness of C5: an execution has just ended in failed on a write call that
\* raised, after a successful read of the current budget.
C5_Witness ==
    /\ lastCall.call = "put_adset_budget" /\ lastCall.result = "raise"
    /\ lastCall.read >= 0
    /\ decisions[lastCall.d].status = "failed"
    /\ ex = NoExec

\* The p of a signed percentage "+p%" / "-p%".
PercentOf(action_value) == DigitsValue(Unsigned(RemovePercent(action_value)))

\* C6: for a signed percentage and current budget c the budget pushed is
\* c * (1 + p/100) for "+p%" and c * (1 - p/100) for "-p%", in the ad-set branch
\* and in the campaign branch.
C6_PercentageMath ==
    (lastCall.call \in BudgetWrites /\ lastCall.read >= 0) =>
        LET av == decisions[lastCall.d].action_value IN
        lastCall.budget = IF StartsWith(av, "+")
                          THEN (lastCall.read * (100 + PercentOf(av))) \div 100
                          ELSE (lastCall.read * (100 - PercentOf(av))) \div 100

\* C7: under level hybrid every budget write the sweep issues on its own is at
\* most the current budget of the entity it is written to: at most the budget
\* read for it where the decision is a percentage (0 <= p <= 100, budget >= 0),
\* at most the budget the entity has otherwise.
C7_HybridNeverRaisesBudget ==
    (lastCall.call \in BudgetWrites /\ lastCall.by = "hybrid") =>
        IF lastCall.read >= 0
        THEN (PercentOf(decisions[lastCall.d].action_value) <= 100)
                => lastCall.budget <= lastCall.read
        ELSE lastCall.budget <= lastCall.before

\* C25: a decision becomes executed only in a step that issues a remote write
\* for it (budget update, ad-set status update, campaign creation) which
\* returns success; a decision for which execute_decision issues no remote
\* write is not marked executed.
C25_ExecutedOnlyAfterSuccessfulWrite ==
    [][\A d \in DOMAIN decisions :
          (decisions[d].status # "executed" /\ decisions'[d].status = "executed")
              => /\ lastCall'.call \in WriteCalls
                 /\ lastCall'.d = d
                 /\ lastCall'.result = "ok"]_vars

\* The decision stands executed by a remote write that returned success (a
\* branch that issues no call is the only other way to executed).
WrittenRemotely(d) ==
    decisions[d].status = "executed" /\ FirstStep(decisions[d]) # "no_call"

\* C26: a decision that ends rejected has had no remote write: no decision
\* whose remote write was issued and has succeeded is turned to rejected.
C26_RejectedNeverWritten ==
    [][\A d \in DOMAIN decisions :
          (decisions[d].status # "rejected" /\ decisions'[d].status = "rejected")
              => ~WrittenRemotely(d)]_vars

(***************************************************************************)
(* Claims about the sweep.                                                 *)
(***************************************************************************)
InSweep == task.kind = "sweep"

\* The decision row the sweep stores for an action on the ad set it is at.
RowFor(action) == Decision(action, task.adset, CampaignId, "pending")

\* C12: for each ad set a sweep processes, exactly one decision is created for
\* every action of every triggered rule the evaluation returned, the same action
\* returned twice giving two decisions, and each decision is stored with status
\* pending before it is routed. In steps: a row is added only for the first
\* action still to be handled and is that action's row with status pending; an
\* action leaves the list only after its row was stored and routed; the sweep
\* turns to the next ad set, or ends in the ordinary way, only with no action
\* left; and no row is ever removed.
C12_OneDecisionPerTriggeredAction ==
    [][/\ Len(decisions') >= Len(decisions)
       /\ \A d \in DOMAIN decisions :
             /\ decisions'[d].decision_type = decisions[d].decision_type
             /\ decisions'[d].action_value = decisions[d].action_value
             /\ decisions'[d].adset_id = decisions[d].adset_id
       /\ Len(decisions') > Len(decisions) =>
             /\ InSweep /\ task.phase = "adset" /\ task.actions # <<>>
             /\ decisions' = Append(decisions, RowFor(Head(task.actions)))
             /\ task'.phase = "route" /\ task'.d = Len(decisions')
             /\ task'.actions = task.actions
       /\ (InSweep /\ task.actions # <<>> /\ task' # task) =>
             \/ /\ task.phase = "adset"
                /\ Len(decisions') = Len(decisions) + 1
             \/ /\ task.phase = "route"
                /\ decisions[task.d].status = "pending"
                /\ decisions[task.d].decision_type = Head(task.actions).action_type
                /\ decisions[task.d].action_value = Head(task.actions).action_value
                /\ decisions[task.d].adset_id = task.adset
                /\ \/ task'.phase = "exec" /\ task'.actions = task.actions
                   \/ task'.phase = "adset" /\ task'.actions = Tail(task.actions)
             \/ /\ task.phase = "exec"
                /\ task'.phase = "adset" /\ task'.actions = Tail(task.actions)]_vars

\* Witness of C12: a sweep has handled an evaluation that returned the same
\* action for two rules, and the ad set has two decisions for it.
C12_Witness ==
    /\ InSweep /\ task.phase = "adset" /\ task.actions = <<>>
    /\ Len(decisions) = 2
    /\ decisions[1].decision_type = "toggle_adset"
    /\ decisions[2].decision_type = "toggle_adset"
    /\ decisions[1].action_value = decisions[2].action_value
    /\ decisions[1].adset_id = task.adset
    /\ decisions[2].adset_id = task.adset

\* C16: a failure of a remote call made while one ad set is processed does not
\* stop the sweep: the sweep ends only when no ad set is left after the one it
\* is at.
C16_SweepSurvivesAdsetFailure ==
    [][(InSweep /\ task.phase # "start" /\ task'.kind = "idle")
          => Len(task.adsets) <= 1]_vars

Executable == {"pending", "pending_approval"}

\* An execution of decision d starts in this step.
ExecStarts(d) == ex.pc = "none" /\ ex'.pc = "begin" /\ ex'.d = d

\* C17: an execution first claims its decision by an atomic check-and-set of the
\* status: the step in which an execution of d starts finds d executable and
\* leaves it in a status in which no other execution of d can start; and
\* an execution issues no remote call for a decision that is claimed by another
\* execution or is already terminal.
C17_ExecutionClaimsDecision ==
    [][\A d \in DOMAIN decisions :
          /\ ExecStarts(d) =>
                /\ decisions[d].status \in Executable
                /\ decisions'[d].status \notin Executable
          /\ (lastCall' # NoCall /\ lastCall'.d = d) =>
                decisions[d].status \notin Terminal]_vars

C19_CreatedCampaignsArePaused ==
    lastCall.call = "post_campaign" =>
        /\ lastCall.status = Paused
        /\ lastCall.budget = Cents(DefaultBudget)

\* A create_campaign decision whose action value is ACTIVE was executed and the
\* campaign was created.
C19_Witness ==
    /\ lastCall.call = "post_campaign" /\ lastCall.result = "ok"
    /\ decisions[lastCall.d].decision_type = "create_campaign"
    /\ decisions[lastCall.d].action_value = Active
    /\ decisions[lastCall.d].status = "executed"

\* The sweep is between the creation of a decision and the end of its routing
\* or execution.
Handling == task.kind = "sweep" /\ task.phase \in {"route", "exec"}

\* The decisions in status pending that no sweep is handling.
LeftPending ==
    {d \in DOMAIN decisions :
        decisions[d].status = "pending" /\ ~(Handling /\ task.d = d)}

\* C27: a sweep leaves none of the decisions it created in status pending: the
\* sweep ends only when it is handling no decision, the set of pending decisions
\* that no sweep is handling never grows, and when the sweep is through with a
\* decision that decision is executed, failed or pending_approval.
C27_SweepLeavesNoDecisionPending ==
    [][/\ LeftPending' \subseteq LeftPending
       /\ (task.kind = "sweep" /\ task'.kind = "idle") => ~Handling
       /\ (Handling /\ ~Handling') =>
             decisions'[task.d].status \in {"executed", "failed", "pending_approval"}]_vars

\* A sweep under level hybrid has ended that created two decisions for as2:
\* one it executed itself, which failed, and one it handed to the operator.
C27_Witness ==
    /\ task = Idle /\ Len(decisions) = 2
    /\ \A d \in DOMAIN decisions : decisions[d].adset_id = "as2"
    /\ decisions[1].status = "failed"
    /\ decisions[2].status = "pending_approval"

(***************************************************************************)
(* Claims about MetaAPIClient.api_call.                                    *)
(***************************************************************************)
Attempts == Len(api.log)

\* C13: with max_retries = 3 and an upstream that answers every attempt with a
\* rate-limit error, api_call invokes the wrapped call exactly 3 times and then
\* raises MetaAPIError.
C13_ThreeAttemptsThenFailure ==
    (/\ api.max_retries = 3
     /\ api.pc \in {"calling", "raised"}
     /\ \A i \in DOMAIN api.log :
           api.log[i].outcome = "facebook_error" /\ api.log[i].code \in RateLimitCodes)
        => /\ Attempts <= 3
           /\ api.pc = "raised" <=> Attempts = 3

\* C14: within one api_call at most one retry is triggered by a token refresh,
\* and a failed refresh ends the call at once: the attempt whose refresh failed
\* is the last one and the call raises.
C14_AtMostOneRefreshRetry ==
    /\ Cardinality({i \in DOMAIN api.log : api.log[i].refresh = "ok"}) <= 1
    /\ \A i \in DOMAIN api.log :
          api.log[i].refresh = "failed" => (i = Attempts /\ api.pc = "raised")

\* C15: before the retry that follows a rate-limit error on retry number n the
\* client waits the Retry-After value when the response carries one, and
\* retry_delay * 2^n otherwise (the values of the model lie below any cap).
C15_RateLimitBackoff ==
    \A i \in DOMAIN api.log :
        LET e == api.log[i] IN
        (/\ e.outcome = "facebook_error" /\ e.code \in RateLimitCodes /\ e.retry
         /\ e.retry_after = NoHeader \/ IsInt(e.retry_after))
            => e.wait = IF e.retry_after # NoHeader
                        THEN DigitsValue(e.retry_after)
                        ELSE api.retry_delay * Pow2(e.n)

WebDecided == {"approved", "rejected", "executed"}

\* C20: approve_decision and reject_decision of the web application change the
\* status of a decision only while it awaits a verdict: a decision that is
\* approved, rejected or executed keeps its status under every later request.
C20_WebDecidedStatusKept ==
    [][\A d \in DOMAIN web :
          web[d].status \in WebDecided => web'[d].status = web[d].status]_vars

(***************************************************************************)
(* Part VI: the AutonomousDecisionEngine.                                  *)
(*                                                                         *)
(* engine.decision_history is the engine's list; engine.calls are the      *)
(* write calls the last operation made on the API client, engine.last is   *)
(* the last operation with its arguments and engine.result what it         *)
(* returned. A key a dictionary does not have reads as None (NoneId,       *)
(* NoneValue). Amounts are in cents, rates in per mille.                   *)
(***************************************************************************)
MaxHistory == 1
NoneId == "None"
NoneValue == 0 - 1
MinDataPoints == 100
MinConversionThreshold == 5
DefaultTargetCpa == 50

Rec(type, action) ==
    [type |-> type, action |-> action, campaign_id |-> NoneId, ad_set_id |-> NoneId,
     bottom_ad_id |-> NoneId, recommended_value |-> NoneValue,
     recommended_strategy |-> NoneId]

\* sum(action.get('value', 0) ... if action_type == 'offsite_conversion')
ConversionCount(insights) == SumActions(insights.actions, {"offsite_conversion"})

\* _get_target_cpa: the entities of the model carry no target_cpa.
GetTargetCpa(campaign_or_ad_set) == DefaultTargetCpa

\* _analyze_budget; <<>> stands for no recommendation. cpa <= target * 0.8 and
\* cpa >= target * 1.2 are compared without the division.
AnalyzeBudget(campaign, insights) ==
    LET n == ConversionCount(insights)
        target == GetTargetCpa(campaign)
    IN IF campaign.daily_budget = 0 THEN <<>>
       ELSE IF n < MinConversionThreshold THEN <<Rec("budget", "maintain")>>
       ELSE IF insights.spend * 10 <= target * 8 * n
       THEN <<[Rec("budget", "increase") EXCEPT
                 !.recommended_value = (campaign.daily_budget * 12) \div 10]>>
       ELSE IF insights.spend * 10 >= target * 12 * n
       THEN <<[Rec("budget", "decrease") EXCEPT
                 !.recommended_value = (campaign.daily_budget * 8) \div 10]>>
       ELSE <<Rec("budget", "maintain")>>

\* _analyze_ad_set
AnalyzeAdSet(ad_set) ==
    LET n == ConversionCount(ad_set.insights)
        spend == ad_set.insights.spend
        target == GetTargetCpa(ad_set)
    IN IF ad_set.status = "ACTIVE"
          /\ (IF n > 0 THEN spend > target * 2 * n ELSE TRUE)
       THEN <<[Rec("ad_set", "pause") EXCEPT !.ad_set_id = ad_set.id]>>
       ELSE IF ad_set.status = "PAUSED" /\ ad_set.recommendations
       THEN <<[Rec("ad_set", "activate") EXCEPT !.ad_set_id = ad_set.id]>>
       ELSE <<>>

\* The ad set part of _generate_recommendations.
RECURSIVE AnalyzeAdSets(_)
AnalyzeAdSets(ad_sets) ==
    IF ad_sets = <<>> THEN <<>>
    ELSE (IF Head(ad_sets).insights.impressions * 2 < MinDataPoints THEN <<>>
          ELSE AnalyzeAdSet(Head(ad_sets)))
         \o AnalyzeAdSets(Tail(ad_sets))

\* _analyze_targeting: breakdown is the ctr of the age / gender rows.
AnalyzeTargeting(breakdown) ==
    IF \E i \in DOMAIN breakdown : breakdown[i] > 20
    THEN <<Rec("targeting", "refine")>> ELSE <<>>

\* _analyze_bidding
AnalyzeBidding(campaign, insights) ==
    LET n == ConversionCount(insights)
        target == GetTargetCpa(campaign)
        capped == (insights.spend * 110) \div n
    IN IF campaign.bid_strategy = "LOWEST_COST_WITHOUT_CAP" /\ n >= 10
       THEN <<[Rec("bidding", "change_strategy") EXCEPT
                 !.recommended_strategy = "COST_CAP",
                 !.recommended_value = IF capped < Cents(target) THEN capped
                                       ELSE Cents(target)]>>
       ELSE IF campaign.bid_strategy = "COST_CAP"
               /\ (IF n > 0 THEN insights.spend * 10 > target * 12 * n ELSE TRUE)
       THEN <<[Rec("bidding", "adjust_cap") EXCEPT
                 !.recommended_value = (campaign.bid_amount * 9) \div 10]>>
       ELSE <<>>

\* _analyze_creatives: ads are the campaign's ads that have insights, with
\* their ctr; the sort is stable and descending.
AnalyzeCreatives(ads) ==
    IF Len(ads) < 2 THEN <<>>
    ELSE LET top == CHOOSE i \in DOMAIN ads :
                       \A k \in DOMAIN ads : ads[k].ctr < ads[i].ctr
                                             \/ (ads[k].ctr = ads[i].ctr /\ i <= k)
             bottom == CHOOSE i \in DOMAIN ads :
                          \A k \in DOMAIN ads : ads[k].ctr > ads[i].ctr
                                                \/ (ads[k].ctr = ads[i].ctr /\ k <= i)
         IN IF ads[top].ctr > ads[bottom].ctr * 2
            THEN <<[Rec("creative", "optimize") EXCEPT !.bottom_ad_id = ads[bottom].id]>>
            ELSE <<>>

\* _generate_recommendations
GenerateRecommendations(data) ==
    IF data.insights.impressions < MinDataPoints
    THEN <<Rec("insufficient_data", NoneId)>>
    ELSE AnalyzeBudget(data.campaign, data.insights)
         \o AnalyzeAdSets(data.ad_sets)
         \o AnalyzeTargeting(data.breakdown)
         \o AnalyzeBidding(data.campaign, data.insights)
         \o AnalyzeCreatives(data.ads)

\* What the API client answers about one campaign.
Conversions(n) == IF n = 0 THEN <<>> ELSE <<[action_type |-> "offsite_conversion", value |-> n]>>
Insights(impressions, spend, n) ==
    [impressions |-> impressions, spend |-> spend, actions |-> Conversions(n)]
EngineAdSet(status, recommendations, insights) ==
    [id |-> "as1", status |-> status, recommendations |-> recommendations,
     insights |-> insights]
EngineAds == <<[id |-> "ad1", ctr |-> 30], [id |-> "ad2", ctr |-> 10]>>
Surroundings ==
    {[ad_sets |-> <<EngineAdSet("ACTIVE", FALSE, Insights(500, 700, 0))>>,
      breakdown |-> <<>>, ads |-> <<>>, bid_strategy |-> "LOWEST_COST_WITHOUT_CAP"],
     [ad_sets |-> <<EngineAdSet("PAUSED", TRUE, Insights(500, 100, 10))>>,
      breakdown |-> <<30, 10>>, ads |-> <<>>, bid_strategy |-> "COST_CAP"],
     [ad_sets |-> <<EngineAdSet("ACTIVE", FALSE, Insights(10, 700, 0))>>,
      breakdown |-> <<10>>, ads |-> EngineAds, bid_strategy |-> "LOWEST_COST_WITH_BID_CAP"]}
Performances ==
    {[impressions |-> 50, spend |-> 300, n |-> 10],
     [impressions |-> 1000, spend |-> 300, n |-> 10],
     [impressions |-> 1000, spend |-> 500, n |-> 10],
     [impressions |-> 1000, spend |-> 700, n |-> 10],
     [impressions |-> 1000, spend |-> 700, n |-> 0]}
FoundCampaigns ==
    {[found |-> TRUE, has_insights |-> TRUE,
      campaign |-> [id |-> CampaignId, daily_budget |-> b,
                    bid_strategy |-> x.bid_strategy, bid_amount |-> 2000],
      insights |-> Insights(i.impressions, i.spend, i.n),
      ad_sets |-> x.ad_sets, breakdown |-> x.breakdown, ads |-> x.ads] :
        b \in {0, Cents(InitialBudget)}, i \in Performances, x \in Surroundings}
CampaignData ==
    FoundCampaigns
    \cup {[d EXCEPT !.found = FALSE] :
             d \in {x \in FoundCampaigns : x.ads # <<>> /\ x.insights.spend = 500}}
    \cup {[d EXCEPT !.has_insights = FALSE] :
             d \in {x \in FoundCampaigns : x.ads # <<>> /\ x.insights.spend = 500}}

\* analyze_campaign: the recommendations, or the error it returns.
AnalysisError(data) ==
    IF ~data.found THEN "Campaign not found"
    ELSE IF ~data.has_insights THEN "No insights available"
    ELSE ""
Recommendations(data) == IF AnalysisError(data) # "" THEN <<>> ELSE GenerateRecommendations(data)

\* The write call _execute_recommendation makes for a recommendation, <<>> when
\* it makes none.
WriteCall(recommendation) ==
    LET call(method, id, value, strategy) ==
            <<[method |-> method, id |-> id, value |-> value, strategy |-> strategy]>>
        r == recommendation
    IN IF r.type = "budget" /\ r.action \in {"increase", "decrease"}
       THEN call("update_campaign_budget", r.campaign_id, r.recommended_value, NoneId)
       ELSE IF r.type = "ad_set" /\ r.action \in {"pause", "activate"}
       THEN call("update_ad_set_status", r.ad_set_id, NoneValue,
                 IF r.action = "pause" THEN "PAUSED" ELSE "ACTIVE")
       ELSE IF r.type = "bidding" /\ r.action = "change_strategy"
       THEN call("update_campaign_bid_strategy", r.campaign_id, r.recommended_value,
                 r.recommended_strategy)
       ELSE IF r.type = "bidding" /\ r.action = "adjust_cap"
       THEN call("update_campaign_bid_amount", r.campaign_id, r.recommended_value, NoneId)
       ELSE IF r.type = "creative" /\ r.action = "optimize"
       THEN call("update_ad_status", r.bottom_ad_id, NoneValue, "PAUSED")
       ELSE <<>>

\* What a call on the API client does: it returns a true value, returns a false
\* value, or raises.
ClientResults == {"true", "false", "raises"}

\* _execute_recommendation: the result object.
ExecuteRecommendation(recommendation, client_result) ==
    [type |-> recommendation.type, action |-> recommendation.action,
     status |-> IF WriteCall(recommendation) = <<>> THEN "skipped"
                ELSE IF client_result = "true" THEN "success"
                ELSE IF client_result = "false" THEN "failed"
                ELSE "error"]

RECURSIVE ExecutionResults(_, _)
ExecutionResults(recommendations, client_results) ==
    IF recommendations = <<>> THEN <<>>
    ELSE <<ExecuteRecommendation(Head(recommendations), Head(client_results))>>
         \o ExecutionResults(Tail(recommendations), Tail(client_results))

RECURSIVE EngineWriteCalls(_)
EngineWriteCalls(recommendations) ==
    IF recommendations = <<>> THEN <<>>
    ELSE WriteCall(Head(recommendations)) \o EngineWriteCalls(Tail(recommendations))

\* The results of the client for the calls of one operation: all succeed, or
\* one of them returns a false value or raises.
ClientRuns(n) ==
    {[i \in 1..n |-> "true"]}
    \cup {[i \in 1..n |-> IF i = k THEN r ELSE "true"] : k \in 1..n, r \in {"false", "raises"}}

\* execute_recommendations with approval_required: nothing but the return value.
PendingApproval(e, campaign_id, recommendations) ==
    [e EXCEPT !.calls = <<>>,
              !.result = [status |-> "pending_approval", campaign_id |-> campaign_id,
                          recommendations |-> recommendations,
                          execution_results |-> <<>>]]

\* execute_recommendations without approval_required.
Executed(e, campaign_id, recommendations, client_results) ==
    LET execution_results == ExecutionResults(recommendations, client_results) IN
    [e EXCEPT !.calls = EngineWriteCalls(recommendations),
              !.decision_history =
                  Append(@, [campaign_id |-> campaign_id,
                             recommendations |-> recommendations,
                             execution_results |-> execution_results]),
              !.result = [status |-> "executed", campaign_id |-> campaign_id,
                          recommendations |-> <<>>,
                          execution_results |-> execution_results]]

\* A variant of ExecuteRecommendationsOn that executes whatever approval_required is.
ExecuteRecommendationsAnyway(e, campaign_id, recommendations, approval_required, client_results) ==
    Executed(e, campaign_id, recommendations, client_results)

\* execute_recommendations
ExecuteRecommendationsOn(e, campaign_id, recommendations, approval_required, client_results) ==
    IF approval_required THEN PendingApproval(e, campaign_id, recommendations)
    ELSE Executed(e, campaign_id, recommendations, client_results)

Request(op, campaign_id, approval_required, recommendations) ==
    [op |-> op, campaign_id |-> campaign_id, approval_required |-> approval_required,
     recommendations |-> recommendations]

\* analyze_campaign(campaign_id), called by the engine's user.
AnalyzeCampaign(data) ==
    /\ engine' = [engine EXCEPT
                    !.calls = <<>>,
                    !.last = Request("analyze_campaign", data.campaign.id, FALSE, <<>>),
                    !.result = [status |-> IF AnalysisError(data) # "" THEN "error"
                                           ELSE "analysed",
                                campaign_id |-> data.campaign.id,
                                recommendations |-> Recommendations(data),
                                execution_results |-> <<>>]]
    /\ UNCHANGED <<kbVars, lcVars, apiVars, webVars, adsVars>>

\* Recommendations written by the engine's user, as the tests write them.
GivenRecommendations ==
    {<<>>,
     <<[Rec("budget", "increase") EXCEPT !.campaign_id = CampaignId,
                                         !.recommended_value = Cents(120)],
       [Rec("ad_set", "pause") EXCEPT !.ad_set_id = "as1"]>>,
     <<Rec("targeting", "refine")>>}

\* execute_recommendations(campaign_id, recommendations, approval_required),
\* called by the engine's user with recommendations they wrote or with the ones
\* the preceding analyze_campaign returned.
ExecuteRecommendations(campaign_id, recommendations, approval_required, client_results) ==
    /\ approval_required \/ Len(engine.decision_history) < MaxHistory
    /\ engine' = [ExecuteRecommendationsOn(engine, campaign_id, recommendations,
                                           approval_required, client_results)
                  EXCEPT !.last = Request("execute_recommendations", campaign_id,
                                          approval_required, recommendations)]

ExecuteAnalysed(approval_required) ==
    /\ engine.result.status = "analysed"
    /\ \E c \in ClientRuns(Len(engine.result.recommendations)) :
          ExecuteRecommendations(engine.result.campaign_id, engine.result.recommendations,
                                 approval_required, c)
    /\ UNCHANGED <<kbVars, lcVars, apiVars, webVars, adsVars>>

ExecuteGiven(approval_required) ==
    /\ \E r \in GivenRecommendations :
          \E c \in ClientRuns(Len(r)) :
              ExecuteRecommendations(CampaignId, r, approval_required, c)
    /\ UNCHANGED <<kbVars, lcVars, apiVars, webVars, adsVars>>

\* optimize_account for an account with at most one active campaign; active is
\* the list get_campaigns_by_account returns. A campaign whose analysis is an
\* error or has no recommendations is skipped.
OptimizeAccount(active, approval_required) ==
    LET status == IF approval_required THEN "pending_approval" ELSE "executed"
        skipped == active = <<>> \/ Recommendations(active[1]) = <<>>
    IN /\ approval_required \/ Len(engine.decision_history) < MaxHistory
       /\ IF skipped
          THEN engine' = [engine EXCEPT
                            !.calls = <<>>,
                            !.last = Request("optimize_account", NoneId, approval_required,
                                             <<>>),
                            !.result = [status |-> status, campaign_id |-> NoneId,
                                        recommendations |-> <<>>,
                                        execution_results |-> <<>>]]
          ELSE \E c \in ClientRuns(Len(Recommendations(active[1]))) :
                  engine' = [ExecuteRecommendationsOn(engine, active[1].campaign.id,
                                                      Recommendations(active[1]),
                                                      approval_required, c)
                             EXCEPT !.last = Request("optimize_account",
                                                     active[1].campaign.id,
                                                     approval_required,
                                                     Recommendations(active[1]))]
       /\ UNCHANGED <<kbVars, lcVars, apiVars, webVars, adsVars>>

InitEngine ==
    /\ InitStore
    /\ InitIdle
    /\ InitClientIdle
    /\ InitWebEmpty
    /\ InitAdsIdle
    /\ InitEngineNew
    /\ decisions = <<>>

NextEngine ==
    \/ \E d \in CampaignData : AnalyzeCampaign(d)
    \/ \E a \in BOOLEAN : ExecuteAnalysed(a)
    \/ \E a \in BOOLEAN : ExecuteGiven(a)
    \/ \E d \in {<<>>} \cup {<<x>> : x \in CampaignData}, a \in BOOLEAN : OptimizeAccount(d, a)

SpecEngine == InitEngine /\ [][NextEngine]_vars

ApprovalOps == {"execute_recommendations", "optimize_account"}

C30_BudgetUpdateTargetsAnalysedCampaign ==
    [][(\/ /\ engine'.last.op = "optimize_account"
           /\ engine' # engine
        \/ /\ engine.result.status = "analysed"
           /\ engine'.last.op = "execute_recommendations"
           /\ engine'.last.campaign_id = engine.result.campaign_id
           /\ engine'.last.recommendations = engine.result.recommendations)
       /\ ~engine'.last.approval_required
       => \A i \in DOMAIN engine'.calls :
             engine'.calls[i].method = "update_campaign_budget"
             => /\ engine'.calls[i].id = engine'.last.campaign_id
                /\ \E k \in DOMAIN engine'.last.recommendations :
                      /\ engine'.last.recommendations[k].type = "budget"
                      /\ engine'.last.recommendations[k].recommended_value
                            = engine'.calls[i].value]_vars

====
